---- MODULE Spec2Model ----
(***************************************************************************)
(* A model of the Market Intelligence Bot news pipeline                    *)
(* (rekt-osbot/Mi-bot): the news providers, the NewsService aggregator,    *)
(* the ContentAnalyzer heuristics and the Telegram digest formatter.       *)
(*                                                                         *)
(* Python strings are TLA+ strings; a character is a string of length 1.   *)
(* Python's None for an optional str argument is the empty string: every   *)
(* use of query / country in the modelled code is a truth test             *)
(* (if not query, query or ..., country and ...) or a dict lookup    *)
(* that no key "" satisfies, so None and "" take the same branches.        *)
(***************************************************************************)
EXTENDS Integers, Sequences, FiniteSets, TLC

\* ------------------------------------------------------------------------
\* Python str operations
\* ------------------------------------------------------------------------

Min(a, b) == IF a <= b THEN a ELSE b
Max(a, b) == IF a >= b THEN a ELSE b
SetMin(S) == CHOOSE m \in S : \A k \in S : m <= k
SetMax(S) == CHOOSE m \in S : \A k \in S : k <= m

\* s[i] (1-based), as a string of length 1
Ch(s, i) == SubSeq(s, i, i)
\* s[i:] for a 1-based i
From(s, i) == SubSeq(s, i, Len(s))
\* s[:k] of Python, k possibly negative
PyPrefix(s, k) == SubSeq(s, 1, IF k < 0 THEN Max(0, Len(s) + k) ELSE Min(k, Len(s)))

UpperCase == "ABCDEFGHIJKLMNOPQRSTUVWXYZ"
LowerCase == "abcdefghijklmnopqrstuvwxyz"
Digits == "0123456789"
\* the printable ASCII characters in code-point order: 32 (space) to 95, and
\* 97 to 126
AsciiLow == " !\"#$%&'()*+,-./0123456789:;<=>?@ABCDEFGHIJKLMNOPQRSTUVWXYZ[\\]^_"
AsciiHigh == "abcdefghijklmnopqrstuvwxyz{|}~"

IndexIn(c, alphabet) ==
    IF \E i \in 1..Len(alphabet) : Ch(alphabet, i) = c
    THEN CHOOSE i \in 1..Len(alphabet) : Ch(alphabet, i) = c
    ELSE 0

\* the characters of a string
CharsOf(alphabet) == {Ch(alphabet, i) : i \in 1..Len(alphabet)}

\* ord(c), tabulated
OrdTable ==
    [c \in CharsOf(AsciiLow) \cup CharsOf(AsciiHigh) \cup {"\t", "\n"} |->
        IF c = "\t" THEN 9 ELSE IF c = "\n" THEN 10
        ELSE IF IndexIn(c, AsciiLow) # 0 THEN 31 + IndexIn(c, AsciiLow) ELSE 96 + IndexIn(c, AsciiHigh)]
Ord(c) == OrdTable[c]

SpaceChars == {" ", "\n", "\t"}
DigitChars == CharsOf(Digits)
UpperChars == CharsOf(UpperCase)
\* \w of the re module
WordChars == CharsOf(UpperCase) \cup CharsOf(LowerCase) \cup DigitChars \cup {"_"}

IsSpace(c) == c \in SpaceChars
IsDigit(c) == c \in DigitChars
IsWord(c) == c \in WordChars

LowerTable == [c \in UpperChars |-> Ch(LowerCase, IndexIn(c, UpperCase))]
LowerChar(c) == IF c \in UpperChars THEN LowerTable[c] ELSE c

RECURSIVE lower(_)
\* str.lower()
lower(s) ==
    IF s = "" THEN ""
    ELSE IF Len(s) = 1 THEN LowerChar(s)
    ELSE lower(SubSeq(s, 1, Len(s) \div 2)) \o lower(SubSeq(s, (Len(s) \div 2) + 1, Len(s)))

\* s.startswith(p)
startswith(s, p) == Len(p) <= Len(s) /\ SubSeq(s, 1, Len(p)) = p

\* the 1-based places where sub occurs in s
Occurrences(s, sub) == {i \in 1..(Len(s) - Len(sub) + 1) : SubSeq(s, i, i + Len(sub) - 1) = sub}

\* sub in s
Contains(s, sub) == sub = "" \/ Occurrences(s, sub) # {}

\* s.find(sub): 0-based, -1 when absent
find(s, sub) == IF sub = "" THEN 0 ELSE IF Occurrences(s, sub) = {} THEN -1 ELSE SetMin(Occurrences(s, sub)) - 1

\* s.rfind(sub): 0-based, -1 when absent
rfind(s, sub) == IF sub = "" THEN Len(s) ELSE IF Occurrences(s, sub) = {} THEN -1 ELSE SetMax(Occurrences(s, sub)) - 1

\* a < b on str (by code point, a proper prefix first)
StrLess(a, b) ==
    \E i \in 1..(Min(Len(a), Len(b)) + 1) :
        /\ SubSeq(a, 1, i - 1) = SubSeq(b, 1, i - 1)
        /\ \/ i = Len(a) + 1 /\ i <= Len(b)
           \/ i <= Len(a) /\ i <= Len(b) /\ Ord(Ch(a, i)) < Ord(Ch(b, i))

RECURSIVE lstrip(_)
lstrip(s) == IF s # "" /\ IsSpace(Ch(s, 1)) THEN lstrip(From(s, 2)) ELSE s
RECURSIVE rstrip(_)
rstrip(s) == IF s # "" /\ IsSpace(Ch(s, Len(s))) THEN rstrip(SubSeq(s, 1, Len(s) - 1)) ELSE s
\* str.strip()
strip(s) == rstrip(lstrip(s))

\* length of the run of non-whitespace characters s starts with
TokenLen(s) ==
    IF \E i \in 1..Len(s) : IsSpace(Ch(s, i))
    THEN SetMin({i \in 1..Len(s) : IsSpace(Ch(s, i))}) - 1
    ELSE Len(s)

\* length of the run of whitespace characters s starts with
SpaceLen(s) ==
    IF \E i \in 1..Len(s) : ~IsSpace(Ch(s, i))
    THEN SetMin({i \in 1..Len(s) : ~IsSpace(Ch(s, i))}) - 1
    ELSE Len(s)

RECURSIVE split(_)
\* str.split(): the whitespace-separated words
split(s) ==
    LET t == lstrip(s)
    IN IF t = "" THEN <<>> ELSE <<SubSeq(t, 1, TokenLen(t))>> \o split(From(t, TokenLen(t) + 1))

RECURSIVE Repeat(_, _)
\* s * n
Repeat(s, n) ==
    IF n <= 0 THEN ""
    ELSE LET half == Repeat(s, n \div 2)
         IN IF n % 2 = 0 THEN half \o half ELSE half \o half \o s

RECURSIVE IntToStr(_)
\* str(n) for n >= 0
IntToStr(n) == IF n < 10 THEN Ch(Digits, n + 1) ELSE IntToStr(n \div 10) \o Ch(Digits, (n % 10) + 1)

RECURSIVE Join(_, _)
\* sep.join(words)
Join(words, sep) ==
    IF words = <<>> THEN ""
    ELSE IF Len(words) = 1 THEN words[1]
    ELSE words[1] \o sep \o Join(Tail(words), sep)

\* a sequence's elements, and the sequences over S of length at most n
Range(seq) == {seq[i] : i \in 1..Len(seq)}
SeqsUpTo(S, n) == UNION {[1..k -> S] : k \in 0..n}

RECURSIVE IsSubsequence(_, _)
\* part can be had from whole by leaving elements out (the order is kept)
IsSubsequence(part, whole) ==
    IF part = <<>> THEN TRUE
    ELSE IF whole = <<>> THEN FALSE
    ELSE IF Head(part) = Head(whole) THEN IsSubsequence(Tail(part), Tail(whole))
    ELSE IsSubsequence(part, Tail(whole))

\* the pairs of places of seq
Places(seq) == (1..Len(seq)) \X (1..Len(seq))

\* list.sort(key, reverse=True): descending and stable (elements the key does
\* not order keep their relative order); greater holds the pairs <<i, j>> of
\* places with key(seq[i]) > key(seq[j])
StableSortDesc(seq, greater) ==
    LET n == Len(seq)
        rank(i) == 1 + Cardinality({j \in 1..n : <<j, i>> \in greater \/ (<<i, j>> \notin greater /\ j < i)})
    IN [p \in 1..n |-> seq[CHOOSE i \in 1..n : rank(i) = p]]

\* ------------------------------------------------------------------------
\* marketbot/utils/text.py
\* ------------------------------------------------------------------------

STOPWORDS == {
    "a", "about", "above", "after", "again", "against", "all", "am", "an", "and", "any", "are", "aren't", "as", "at",
    "be", "because", "been", "before", "being", "below", "between", "both", "but", "by", "can't", "cannot", "could",
    "couldn't", "did", "didn't", "do", "does", "doesn't", "doing", "don't", "down", "during", "each", "few", "for",
    "from", "further", "had", "hadn't", "has", "hasn't", "have", "haven't", "having", "he", "he'd", "he'll", "he's",
    "her", "here", "here's", "hers", "herself", "him", "himself", "his", "how", "how's", "i", "i'd", "i'll", "i'm",
    "i've", "if", "in", "into", "is", "isn't", "it", "it's", "its", "itself", "let's", "me", "more", "most", "mustn't",
    "my", "myself", "no", "nor", "not", "of", "off", "on", "once", "only", "or", "other", "ought", "our", "ours",
    "ourselves", "out", "over", "own", "same", "shan't", "she", "she'd", "she'll", "she's", "should", "shouldn't",
    "so", "some", "such", "than", "that", "that's", "the", "their", "theirs", "them", "themselves", "then", "there",
    "there's", "these", "they", "they'd", "they'll", "they're", "they've", "this", "those", "through", "to", "too",
    "under", "until", "up", "very", "was", "wasn't", "we", "we'd", "we'll", "we're", "we've", "were", "weren't",
    "what", "what's", "when", "when's", "where", "where's", "which", "while", "who", "who's", "whom", "why", "why's",
    "with", "won't", "would", "wouldn't", "you", "you'd", "you'll", "you're", "you've", "your", "yours", "yourself",
    "yourselves"
}

RECURSIVE RemoveTags(_)
\* re.sub(r'<.*?>', '', text): from a "<" to the next ">" on the same line
RemoveTags(s) ==
    IF s = "" THEN ""
    ELSE LET closes == {j \in 2..Len(s) : Ch(s, j) = ">"}
             close == SetMin(closes)
         IN IF Ch(s, 1) = "<" /\ closes # {} /\ ~Contains(SubSeq(s, 2, close - 1), "\n")
            THEN RemoveTags(From(s, close + 1))
            ELSE Ch(s, 1) \o RemoveTags(From(s, 2))

\* length of the scheme a URL match of r'https?://\S+|www\.\S+' starts with at
\* the head of s, 0 when none starts there
UrlHead(s) ==
    LET follows(p) == startswith(s, p) /\ Len(s) > Len(p) /\ ~IsSpace(Ch(s, Len(p) + 1))
    IN IF follows("https://") THEN 8 ELSE IF follows("http://") THEN 7 ELSE IF follows("www.") THEN 4 ELSE 0

RECURSIVE RemoveUrls(_)
\* re.sub(r'https?://\S+|www\.\S+', '', text)
RemoveUrls(s) ==
    IF s = "" THEN ""
    ELSE IF UrlHead(s) # 0
         THEN RemoveUrls(From(s, UrlHead(s) + TokenLen(From(s, UrlHead(s) + 1)) + 1))
         ELSE Ch(s, 1) \o RemoveUrls(From(s, 2))

RECURSIVE RemoveEmails(_)
\* re.sub(r'\S+@\S+', '', text): a run of non-whitespace with an "@" that is
\* neither its first nor its last character goes as a whole
RemoveEmails(s) ==
    IF s = "" THEN ""
    ELSE IF IsSpace(Ch(s, 1)) THEN Ch(s, 1) \o RemoveEmails(From(s, 2))
    ELSE LET n == TokenLen(s)
             token == SubSeq(s, 1, n)
         IN (IF \E p \in 2..(n - 1) : Ch(token, p) = "@" THEN "" ELSE token) \o RemoveEmails(From(s, n + 1))

RECURSIVE RemoveSpecial(_)
\* re.sub(r'[^\w\s.,!?-]', '', text)
RemoveSpecial(s) ==
    IF s = "" THEN ""
    ELSE LET c == Ch(s, 1)
         IN (IF IsWord(c) \/ IsSpace(c) \/ c \in {".", ",", "!", "?", "-"} THEN c ELSE "") \o RemoveSpecial(From(s, 2))

RECURSIVE CollapseSpaces(_)
\* re.sub(r'\s+', ' ', text)
CollapseSpaces(s) ==
    IF s = "" THEN ""
    ELSE IF IsSpace(Ch(s, 1)) THEN " " \o CollapseSpaces(From(s, SpaceLen(s) + 1))
    ELSE Ch(s, 1) \o CollapseSpaces(From(s, 2))

clean_text(text) ==
    IF text = "" THEN ""
    ELSE strip(CollapseSpaces(RemoveSpecial(RemoveEmails(RemoveUrls(RemoveTags(lower(text)))))))

\* ------------------------------------------------------------------------
\* State
\* ------------------------------------------------------------------------

VARIABLES
    \* NewsService: one pipeline invocation at a time (the pipeline is synchronous)
    svc_pc,         \* "idle", "fetching" (inside fetch_news_from_all_sources) or "done"
    svc_call,       \* the entry point running and its arguments
    all_news,       \* fetch_news_from_all_sources: the list being collected
    invoked,        \* the providers invoked so far by this call, in order
    returned,       \* what the providers that did not raise returned, in order
    some_raised,    \* whether a provider raised during this call
    svc_result,     \* what the entry point returned (or that it raised)
    \* a news provider: one call of fetch_news or normalize_article at a time
    prov_pc,        \* "idle", "fetching" (FinancialSiteProvider: inside the loop over urls) or "done"
    prov_call,      \* the method running and its arguments
    prov_url,       \* FinancialSiteProvider.fetch_news: the place in self.urls of the next url
    prov_articles,  \* FinancialSiteProvider.fetch_news: articles
    prov_fetches,   \* how each fetch of this call ended, in order
    prov_pages,     \* FinancialSiteProvider.fetch_news: what the selectors found on each parsed page, in order
    prov_result,    \* what the method returned (or that it raised)
    \* the digest formatter: one call at a time
    fmt_pc,         \* "idle", "done", or "again" (truncate_message applied to its own output)
    fmt_call,       \* the function called and its arguments
    fmt_message,    \* the message truncate_message was given
    fmt_result,     \* what the function returned
    fmt_again,      \* what truncate_message returned for fmt_result
    \* the ContentAnalyzer: one call at a time
    an_pc,          \* "idle" or "done"
    an_call,        \* the method called and its arguments
    an_result,      \* what the method returned
    \* an observer of the NewsService
    svc_earlier,    \* an invocation that returned earlier: its call, provider outputs and result
    \* marketbot/utils/decorators.py: the module and one call of a wrapped handler at a time
    adm_pc,         \* "unloaded" (module not imported yet), "idle" or "done"
    ADMIN_USER_ID,  \* decorators.ADMIN_USER_ID, read from the environment at import
    WARNED_USERS,   \* decorators.WARNED_USERS
    adm_call,       \* the update the wrapped handler was called with
    adm_result,     \* whether the handler ran, the replies sent, whether the call raised
    adm_restricted, \* an observer: how many restriction messages each user has been sent
    \* marketbot/handlers/bot_handlers.py: the subscription commands
    subscribed_users,   \* bot_data["subscribed_users"]
    sub_call,           \* the command handled last: who sent it where, and what came of it
    sub_last_accepted,  \* an observer: for each chat, the last command a handler ran for
    \* SchedulerService._send_daily_update: one update at a time
    upd_pc,         \* "idle", "awaiting" (bot.send_message is awaited) or "done"
    upd_chat,       \* the chat_id of the send awaited
    upd_queue,      \* the rest of list(subscribed_users), still to be gone through
    upd_log,        \* the sends of this update and how each ended, in order
    upd_before,     \* an observer: subscribed_users when the update began
    upd_concurrent, \* an observer: whether a command was handled while a send was awaited
    upd_pipeline    \* how many times this update called get_market_news

svc_vars == <<svc_pc, svc_call, all_news, invoked, returned, some_raised, svc_result>>
prov_vars == <<prov_pc, prov_call, prov_url, prov_articles, prov_fetches, prov_pages, prov_result>>
fmt_vars == <<fmt_pc, fmt_call, fmt_message, fmt_result, fmt_again>>
an_vars == <<an_pc, an_call, an_result>>
adm_vars == <<adm_pc, ADMIN_USER_ID, WARNED_USERS, adm_call, adm_result, adm_restricted>>
sub_vars == <<subscribed_users, sub_call, sub_last_accepted>>
upd_vars == <<upd_pc, upd_chat, upd_queue, upd_log, upd_before, upd_concurrent, upd_pipeline>>

\* all but the state of the NewsService
non_svc_vars == <<prov_vars, fmt_vars, an_vars, svc_earlier, adm_vars, sub_vars, upd_vars>>
\* all but the state of the provider
non_prov_vars == <<svc_vars, fmt_vars, an_vars, svc_earlier, adm_vars, sub_vars, upd_vars>>
\* all but the state of the formatter
non_fmt_vars == <<svc_vars, prov_vars, an_vars, svc_earlier, adm_vars, sub_vars, upd_vars>>
\* all but the state of the analyzer
non_an_vars == <<svc_vars, prov_vars, fmt_vars, svc_earlier, adm_vars, sub_vars, upd_vars>>
\* all but the state of decorators.py
non_adm_vars == <<svc_vars, prov_vars, fmt_vars, an_vars, svc_earlier, sub_vars, upd_vars>>

vars == <<svc_vars, prov_vars, fmt_vars, an_vars, svc_earlier, adm_vars, sub_vars, upd_vars>>

\* ------------------------------------------------------------------------
\* marketbot/config/settings.py
\* ------------------------------------------------------------------------

GOOGLE_NEWS_SEARCH_QUERIES ==
    [india |-> "India stock market OR Sensex OR Nifty",
     us |-> "US stock market OR Dow Jones OR Nasdaq OR S&P 500 OR Wall Street",
     global |-> "global stock market OR international finance OR world economy",
     commodities |-> "gold price OR crude oil price OR commodity markets",
     breaking |-> "breaking market news OR stock market latest",
     china |-> "China stock market OR Shanghai OR Hang Seng",
     earnings |-> "company earnings OR quarterly results OR financial performance",
     crypto |-> "cryptocurrency OR bitcoin OR ethereum OR blockchain",
     forex |-> "forex OR currency exchange OR dollar OR rupee",
     ipo |-> "IPO OR initial public offering OR new listing",
     mergers |-> "mergers OR acquisitions OR takeover"]

\* the display name and the pages of each site (the selectors are what the
\* page models below abstract)
FINANCIAL_NEWS_SOURCES ==
    [moneycontrol |->
         [name |-> "MoneyControl",
          urls |-> <<"https://www.moneycontrol.com/", "https://www.moneycontrol.com/stocksmarketsindia/">>],
     financial_express |->
         [name |-> "Financial Express",
          urls |-> <<"https://www.financialexpress.com/market/",
                     "https://www.financialexpress.com/market/stock-market/">>],
     economic_times |->
         [name |-> "Economic Times",
          urls |-> <<"https://economictimes.indiatimes.com/markets/stocks/news",
                     "https://economictimes.indiatimes.com/markets/stocks">>],
     yahoo_finance |->
         [name |-> "Yahoo Finance",
          urls |-> <<"https://finance.yahoo.com/news/", "https://finance.yahoo.com/topic/stock-market-news/">>],
     cnbc |->
         [name |-> "CNBC",
          urls |-> <<"https://www.cnbc.com/world-markets/", "https://www.cnbc.com/markets/">>],
     marketwatch |->
         [name |-> "MarketWatch",
          urls |-> <<"https://www.marketwatch.com/markets", "https://www.marketwatch.com/latest-news">>]]

\* ------------------------------------------------------------------------
\* Python values of more than one type
\* ------------------------------------------------------------------------

\* None, a str, and a dict from keys to such values
PyNone == [t |-> "none", s |-> "", d |-> <<>>]
PyStr(s) == [t |-> "str", s |-> s, d |-> <<>>]
PyDict(d) == [t |-> "dict", s |-> "", d |-> d]

\* an optional element or attribute: the empty sequence, or the value alone
Absent == <<>>
Present(v) == <<v>>

\* ------------------------------------------------------------------------
\* marketbot/news_providers/base.py
\* ------------------------------------------------------------------------

\* the keys of a normalized article
ArticleKeys == {"title", "url", "source", "publishedAt", "time", "content"}

\* dict.get(key, default)
DictGet(dict, key, default) == IF key \in DOMAIN dict THEN dict[key] ELSE default

\* normalize_article without the isinstance test: the source as it came
normalize_article_source_as_given(article) ==
    [title |-> DictGet(article, "title", "No title"),
     url |-> DictGet(article, "url", ""),
     source |-> DictGet(article, "source", PyDict("name" :> PyStr("Unknown"))),
     publishedAt |-> DictGet(article, "publishedAt", ""),
     time |-> DictGet(article, "time", "Recent"),
     content |-> DictGet(article, "content", "")]

\* NewsProvider.normalize_article; article is a dict (a function on its keys)
\* whose source, if any, is a Python value and whose other values are str
normalize_article(article) ==
    [title |-> DictGet(article, "title", "No title"),
     url |-> DictGet(article, "url", ""),
     source |-> IF DictGet(article, "source", PyNone).t = "dict"
                THEN DictGet(article, "source", PyDict("name" :> PyStr("Unknown")))
                ELSE PyDict("name" :> DictGet(article, "source", PyStr("Unknown"))),
     publishedAt |-> DictGet(article, "publishedAt", ""),
     time |-> DictGet(article, "time", "Recent"),
     content |-> DictGet(article, "content", "")]

\* ------------------------------------------------------------------------
\* marketbot/utils/web_helpers.py
\* ------------------------------------------------------------------------

\* get_base_url: scheme://netloc of an absolute URL
get_base_url(url) ==
    LET scheme_end == find(url, "://") + 3
        rest == From(url, scheme_end + 1)
        netloc_len == IF Contains(rest, "/") THEN find(rest, "/") ELSE Len(rest)
    IN SubSeq(url, 1, scheme_end + netloc_len)

\* make_absolute_url; base_url is a scheme://netloc, and urljoin is modelled
\* for references that are a path (no "..", query or fragment alone)
make_absolute_url(base_url, relative_url) ==
    IF relative_url = "" THEN base_url
    ELSE IF startswith(relative_url, "http://") \/ startswith(relative_url, "https://") THEN relative_url
    ELSE IF startswith(relative_url, "//") THEN SubSeq(base_url, 1, find(base_url, "://")) \o ":" \o relative_url
    ELSE IF startswith(relative_url, "/") THEN base_url \o relative_url
    ELSE base_url \o "/" \o relative_url

\* ------------------------------------------------------------------------
\* marketbot/news_providers/financial_site.py
\* ------------------------------------------------------------------------

\* FinancialSiteProvider.__init__: max_articles: int = 10
max_articles == 10

\* _extract_title_and_link: <<title, link>> of an article element
extract_title_and_link(el, base_url) ==
    <<IF el.title # Absent THEN strip(el.title[1]) ELSE "",
      IF el.link # Absent THEN make_absolute_url(base_url, el.link[1]) ELSE "">>

\* _extract_title_and_link_alternative: the first heading and its link, else
\* the first anchor with text and an href
extract_title_and_link_alternative(el, base_url) ==
    LET title == IF el.heading # Absent THEN strip(el.heading[1].text) ELSE ""
        link == IF el.heading # Absent /\ el.heading[1].href # Absent
                THEN make_absolute_url(base_url, el.heading[1].href[1]) ELSE ""
        usable == {i \in 1..Len(el.a_tags) : strip(el.a_tags[i].text) # "" /\ el.a_tags[i].href # Absent}
    IN IF (title = "" \/ link = "") /\ usable # {}
       THEN <<strip(el.a_tags[SetMin(usable)].text), make_absolute_url(base_url, el.a_tags[SetMin(usable)].href[1])>>
       ELSE <<title, link>>

\* fetch_news, lines 89-125: the articles (none or one) an element yields
site_element_articles(el, site_name, base_url) ==
    IF el.raises THEN <<>>
    ELSE LET primary == extract_title_and_link(el, base_url)
             found == IF primary[1] = "" \/ primary[2] = ""
                      THEN extract_title_and_link_alternative(el, base_url) ELSE primary
         IN IF found[1] = "" \/ found[2] = "" THEN <<>>
            ELSE <<normalize_article(
                       [title |-> found[1], url |-> found[2], source |-> PyDict("name" :> PyStr(site_name)),
                        time |-> IF el.time # Absent THEN strip(el.time[1]) ELSE ""])>>

RECURSIVE site_elements_articles(_, _, _)
site_elements_articles(els, site_name, base_url) ==
    IF els = <<>> THEN <<>>
    ELSE site_element_articles(Head(els), site_name, base_url)
             \o site_elements_articles(Tail(els), site_name, base_url)

\* _try_alternative_selectors, lines 206-214: the parents of the headlines that
\* have an anchor or whose parent has one
possible_articles(all_headlines) ==
    LET linked == SelectSeq(all_headlines, LAMBDA headline : headline.link # Absent)
    IN [i \in 1..Len(linked) |-> linked[i].parent]

\* _try_alternative_selectors: the elements of the first alternative selector
\* that matches anything, else the parents of the headlines with a link
try_alternative_selectors(page) ==
    LET matching == {i \in 1..Len(page.alternative) : page.alternative[i] # <<>>}
    IN IF matching # {} THEN page.alternative[SetMin(matching)] ELSE possible_articles(page.headlines)

\* fetch_news, lines 76-125: the articles of one fetched page; the elements of
\* the alternative selectors are used when the site's own selector finds none;
\* cap is self.max_articles
site_page_articles(page, site_name, url, cap) ==
    LET article_elements == IF page.primary # <<>> THEN page.primary ELSE try_alternative_selectors(page)
    IN site_elements_articles(SubSeq(article_elements, 1, Min(cap, Len(article_elements))),
                              site_name, get_base_url(url))

\* ------------------------------------------------------------------------
\* marketbot/news_providers/google_news.py
\* ------------------------------------------------------------------------

\* fetch_news, lines 39-45: the query searched for
google_query_of(query, country) ==
    IF query # "" THEN query
    ELSE IF country # "" /\ country \in DOMAIN GOOGLE_NEWS_SEARCH_QUERIES THEN GOOGLE_NEWS_SEARCH_QUERIES[country]
    ELSE GOOGLE_NEWS_SEARCH_QUERIES.global

\* lines 139-147: "Handle different URL formats"
google_link(link_rel) ==
    IF startswith(link_rel, "./articles/") THEN "https://news.google.com/" \o From(link_rel, 3)
    ELSE IF startswith(link_rel, "/articles/") THEN "https://news.google.com" \o link_rel
    ELSE IF startswith(link_rel, "http://") \/ startswith(link_rel, "https://") THEN link_rel
    ELSE "https://news.google.com/" \o link_rel

\* lines 97-192: the articles (none or one) a result block yields
google_block_articles(block, query) ==
    IF block.raises \/ block.title = Absent \/ strip(block.title[1]) = "" THEN <<>>
    ELSE LET own_link == IF block.title_href # Absent THEN block.title_href[1]
                         ELSE IF block.parent_link # Absent THEN block.parent_link[1] ELSE ""
             link_rel == IF own_link # "" THEN own_link
                         ELSE IF block.alt_link # Absent THEN block.alt_link[1] ELSE ""
         IN IF own_link = "" /\ block.alt_link = Absent THEN <<>>
            ELSE <<normalize_article(
                       [title |-> strip(block.title[1]),
                        url |-> google_link(link_rel),
                        source |-> PyDict("name" :> PyStr(IF block.source # Absent
                                                          THEN strip(block.source[1]) ELSE "Unknown")),
                        publishedAt |-> IF block.time # Absent /\ block.time[1].datetime # Absent
                                        THEN block.time[1].datetime[1] ELSE "",
                        time |-> IF block.time # Absent THEN strip(block.time[1].text) ELSE "Recent",
                        query |-> query])>>

RECURSIVE google_blocks_articles(_, _)
google_blocks_articles(blocks, query) ==
    IF blocks = <<>> THEN <<>>
    ELSE google_block_articles(Head(blocks), query) \o google_blocks_articles(Tail(blocks), query)

RECURSIVE filter_out_duplicates(_, _)
\* lines 194-201: "Filter out duplicates by title"
filter_out_duplicates(news_items, seen_titles) ==
    IF news_items = <<>> THEN <<>>
    ELSE IF Head(news_items).title \notin seen_titles
         THEN <<Head(news_items)>>
                  \o filter_out_duplicates(Tail(news_items), seen_titles \cup {Head(news_items).title})
         ELSE filter_out_duplicates(Tail(news_items), seen_titles)

\* lines 210-230: the article (none or one) an anchor of the last-resort pass yields
google_anchor_articles(link, query) ==
    LET title == strip(link.text)
        href == IF link.href # Absent THEN link.href[1] ELSE ""
    IN IF title # "" /\ href # "" /\ Len(title) > 15
       THEN <<normalize_article(
                  [title |-> title,
                   url |-> IF startswith(href, "/") THEN "https://news.google.com" \o href
                           ELSE IF ~(startswith(href, "http://") \/ startswith(href, "https://"))
                                THEN "https://news.google.com/" \o href
                                ELSE href,
                   source |-> PyDict("name" :> PyStr("Google News")),
                   publishedAt |-> "", time |-> "Recent", query |-> query])>>
       ELSE <<>>

RECURSIVE google_anchors_articles(_, _)
google_anchors_articles(links, query) ==
    IF links = <<>> THEN <<>>
    ELSE google_anchor_articles(Head(links), query) \o google_anchors_articles(Tail(links), query)

\* lines 205-232: the last-resort pass over the first ten anchors of the page
google_last_resort(page, query) ==
    google_anchors_articles(SubSeq(page.all_links, 1, Min(10, Len(page.all_links))), query)

\* ------------------------------------------------------------------------
\* marketbot/utils/telegram_formatter.py
\* ------------------------------------------------------------------------

\* truncate_message: max_length: int = 4000
TelegramCeiling == 4000

\* truncate_message with the cut at max_length itself
truncate_message_cut_at_max_length(message, max_length) ==
    IF Len(message) <= max_length THEN message
    ELSE PyPrefix(message, max_length) \o "..."

\* truncate_message of telegram_formatter.py
truncate_message(message, max_length) ==
    IF Len(message) <= max_length THEN message
    ELSE LET head == PyPrefix(message, max_length - 4)
             paragraph == rfind(head, "\n\n")
             sentence == IF rfind(head, ". ") # -1 THEN rfind(head, ". ") + 1 ELSE -1
             break_point1 == IF paragraph = -1 \/ 2 * paragraph < max_length THEN sentence ELSE paragraph
             break_point == IF break_point1 = -1 \/ 2 * break_point1 < max_length
                            THEN max_length - 4 ELSE break_point1
         IN PyPrefix(message, break_point) \o "..."

\* the three characters before each key point (not ASCII in the source)
Bullet == "^^^"

\* format_enhanced_news: max_articles: int = 7; format_news_articles:
\* max_articles: int = 10
enhanced_max_articles == 7
news_max_articles == 10

\* format_enhanced_news / format_news_articles: source_name of an article
source_name_of(article) ==
    LET source == DictGet(article, "source", PyDict(<<>>))
        name == IF source.t = "dict" THEN DictGet(source.d, "name", PyStr("Unknown")) ELSE source
    IN IF name.t = "str" /\ name.s # "" THEN name.s ELSE IF source.t = "dict" THEN "" ELSE "Unknown"

\* the line of an article: number, linked title, source and time
article_line(i, article) ==
    LET article_title == DictGet(article, "title", "No title")
        article_url == DictGet(article, "url", "")
        source_name == source_name_of(article)
        time_info == DictGet(article, "publishedAt", DictGet(article, "time", ""))
        source_time == (IF source_name # "" /\ source_name # "Unknown" THEN <<"_" \o source_name \o "_">> ELSE <<>>)
                           \o (IF time_info # "" THEN <<time_info>> ELSE <<>>)
    IN (IF article_url # ""
        THEN "*" \o IntToStr(i) \o ".* [" \o article_title \o "](" \o article_url \o ")"
        ELSE "*" \o IntToStr(i) \o ".* " \o article_title)
           \o (IF source_time # <<>> THEN "\n   " \o Join(source_time, " | ") ELSE "")

RECURSIVE enhanced_article_lines(_, _)
\* format_enhanced_news, lines 256-292: the articles from the i-th on
enhanced_article_lines(i, articles) ==
    IF i > Len(articles) THEN ""
    ELSE article_line(i, articles[i])
             \o (IF DictGet(articles[i], "summary", "") # ""
                 THEN "\n   _" \o articles[i].summary \o "_" ELSE "")
             \o "\n\n" \o enhanced_article_lines(i + 1, articles)

RECURSIVE news_article_lines(_, _)
\* format_news_articles, lines 87-119: the articles from the i-th on
news_article_lines(i, articles) ==
    IF i > Len(articles) THEN ""
    ELSE article_line(i, articles[i]) \o "\n\n" \o news_article_lines(i + 1, articles)

RECURSIVE key_point_lines(_)
key_point_lines(key_points) ==
    IF key_points = <<>> THEN ""
    ELSE Bullet \o " " \o Head(key_points) \o "\n" \o key_point_lines(Tail(key_points))

\* "_...and N more articles_"
more_articles_note(articles, max_shown) ==
    IF Len(articles) > max_shown THEN "_...and " \o IntToStr(Len(articles) - max_shown) \o " more articles_" ELSE ""

\* format_enhanced_news up to its call of truncate_message
enhanced_news_message(articles, analysis, title, max_shown) ==
    "*" \o title \o "*\n\n"
        \o (IF analysis.summary # "" THEN analysis.summary \o "\n\n" ELSE "")
        \o (IF analysis.insights # "" THEN "*Key Market Insights:*\n" \o analysis.insights \o "\n\n" ELSE "")
        \o (IF analysis.key_points # <<>>
            THEN "*Top Headlines:*\n" \o key_point_lines(analysis.key_points) \o "\n" ELSE "")
        \o (IF analysis.trending_topics # <<>>
            THEN "*Trending Topics:* "
                     \o Join(SubSeq(analysis.trending_topics, 1, Min(5, Len(analysis.trending_topics))), ", ")
                     \o "\n\n"
            ELSE "")
        \o "*Latest Articles:*\n\n"
        \o enhanced_article_lines(1, SubSeq(articles, 1, Min(max_shown, Len(articles))))
        \o more_articles_note(articles, max_shown)

\* format_enhanced_news(articles, analysis, title, max_articles)
format_enhanced_news(articles, analysis, title, max_shown) ==
    IF articles = <<>> THEN "*" \o title \o "*\n\nNo news articles available at this time."
    ELSE truncate_message(enhanced_news_message(articles, analysis, title, max_shown), TelegramCeiling)

\* format_news_articles up to its call of truncate_message (include_summary is
\* False in every call)
news_articles_message(articles, title, max_shown) ==
    "*" \o title \o "*\n\n"
        \o news_article_lines(1, SubSeq(articles, 1, Min(max_shown, Len(articles))))
        \o more_articles_note(articles, max_shown)

\* format_news_articles(articles, title, max_articles)
format_news_articles(articles, title, max_shown) ==
    IF articles = <<>> THEN title \o "\n\nNo news articles available at this time."
    ELSE truncate_message(news_articles_message(articles, title, max_shown), TelegramCeiling)

\* ------------------------------------------------------------------------
\* marketbot/utils/formatting.py
\* ------------------------------------------------------------------------

\* escape_markdown: escape_chars (and the grave accent, which no text of the
\* model contains)
escape_chars ==
    {"_", "*", "[", "]", "(", ")", "~", ">", "#", "+", "-", "=", "|", "{", "}", ".", "!"}

RECURSIVE escape_markdown(_)
\* escape_markdown: a backslash put before each character of escape_chars
escape_markdown(text) ==
    IF text = "" THEN ""
    ELSE IF Len(text) = 1 THEN (IF text \in escape_chars THEN "\\" \o text ELSE text)
    ELSE escape_markdown(SubSeq(text, 1, Len(text) \div 2))
             \o escape_markdown(SubSeq(text, (Len(text) \div 2) + 1, Len(text)))

\* truncate_message: max_length: int = 4096
FormattingCeiling == 4096

\* truncate_message of formatting.py
formatting_truncate_message(message, max_length) ==
    IF Len(message) <= max_length THEN message
    ELSE LET newline == rfind(PyPrefix(message, max_length - 3), "\n")
             truncate_point == IF newline < max_length - 200 THEN max_length - 3 ELSE newline
         IN PyPrefix(message, truncate_point) \o "..."

\* ------------------------------------------------------------------------
\* services/content_analyzer.py
\* ------------------------------------------------------------------------

\* ContentAnalyzer.term_mapping: its keys, in the order of the dict
term_mapping_keys ==
    <<"dow", "djia", "nasdaq", "s&p", "s&p 500", "nyse", "russell", "sensex", "nifty",
      "bse", "nse", "rbi", "sebi", "fed", "federal reserve", "wall street", "wall st",
      "dalal street">>

\* ContentAnalyzer.term_mapping: term -> canonical name
term_mapping ==
    "dow" :> "Dow Jones" @@ "djia" :> "Dow Jones" @@ "nasdaq" :> "NASDAQ" @@
    "s&p" :> "S&P 500" @@ "s&p 500" :> "S&P 500" @@ "nyse" :> "NYSE" @@
    "russell" :> "Russell" @@ "sensex" :> "Sensex" @@ "nifty" :> "Nifty" @@
    "bse" :> "BSE" @@ "nse" :> "NSE" @@ "rbi" :> "RBI" @@ "sebi" :> "SEBI" @@
    "fed" :> "Federal Reserve" @@ "federal reserve" :> "Federal Reserve" @@
    "wall street" :> "Wall Street" @@ "wall st" :> "Wall Street" @@
    "dalal street" :> "Dalal Street"

\* _extract_market_movements: index_mapping
index_mapping ==
    [us |-> <<"dow", "nasdaq", "s&p", "s&p 500", "djia">>,
     india |-> <<"sensex", "nifty", "bse", "nse">>]

\* _extract_market_movements: check_indices ("" stands for country=None: both fail "if country")
check_indices_of(country) ==
    IF country # "" /\ country \in DOMAIN index_mapping THEN index_mapping[country] ELSE <<>>

\* length of the longest run of characters of chars that s has from place i on
RunLen(s, i, chars) ==
    LET stops == {k \in i..Len(s) : Ch(s, k) \notin chars}
    IN IF stops = {} THEN Max(0, Len(s) - i + 1) ELSE SetMin(stops) - i

\* percentage_pattern ([+-]?\d+(?:\.\d+)?)\s*% tried at place i of s: the group it
\* captures and the place of the "%", or stop = 0 when it does not match there
percentage_match_at(s, i) ==
    LET sign == IF i <= Len(s) /\ Ch(s, i) \in {"+", "-"} THEN 1 ELSE 0
        whole == RunLen(s, i + sign, DigitChars)
        dot == i + sign + whole
        fraction == IF whole > 0 /\ dot <= Len(s) /\ Ch(s, dot) = "."
                    THEN RunLen(s, dot + 1, DigitChars) ELSE 0
        group == sign + whole + (IF fraction > 0 THEN fraction + 1 ELSE 0)
        stop == i + group + RunLen(s, i + group, SpaceChars)
    IN IF whole > 0 /\ stop <= Len(s) /\ Ch(s, stop) = "%"
       THEN [group |-> SubSeq(s, i, i + group - 1), stop |-> stop]
       ELSE [group |-> "", stop |-> 0]

RECURSIVE findall_percentage_from(_, _)
\* re.findall(percentage_pattern, s), searching from place i on
findall_percentage_from(s, i) ==
    LET hits == {k \in i..Len(s) : percentage_match_at(s, k).stop # 0}
    IN IF hits = {} THEN <<>>
       ELSE LET hit == percentage_match_at(s, SetMin(hits))
            IN <<hit.group>> \o findall_percentage_from(s, hit.stop + 1)

\* re.findall(percentage_pattern, s)
findall_percentage(s) == findall_percentage_from(s, 1)

RECURSIVE lstrip_chars(_, _)
\* str.lstrip(chars)
lstrip_chars(s, chars) ==
    IF s # "" /\ Ch(s, 1) \in chars THEN lstrip_chars(From(s, 2), chars) ELSE s

RECURSIVE rstrip_chars(_, _)
\* str.rstrip(chars)
rstrip_chars(s, chars) ==
    IF s # "" /\ Ch(s, Len(s)) \in chars THEN rstrip_chars(SubSeq(s, 1, Len(s) - 1), chars) ELSE s

\* float(group) of a group percentage_pattern captured: its sign, integer digits
\* and fraction digits, without the zeros that do not change the value
float_of(group) ==
    LET unsigned == lstrip_chars(group, {"+", "-"})
        dot == find(unsigned, ".")
        whole == IF dot = -1 THEN unsigned ELSE PyPrefix(unsigned, dot)
        fraction == IF dot = -1 THEN "" ELSE From(unsigned, dot + 2)
    IN [negative |-> startswith(group, "-"),
        whole |-> lstrip_chars(whole, {"0"}),
        fraction |-> rstrip_chars(fraction, {"0"})]

\* change > 0
float_is_positive(change) == ~change.negative /\ (change.whole # "" \/ change.fraction # "")

\* f"{abs(change)}": the shortest repr of the float (digits, a point, digits), as it
\* is for the values between 0.0001 and 10^16 that a decimal of few digits denotes
float_abs_str(change) ==
    (IF change.whole = "" THEN "0" ELSE change.whole) \o "." \o
    (IF change.fraction = "" THEN "0" ELSE change.fraction)

\* _extract_reason: reason_indicators
reason_indicators(positive) ==
    <<"as", "after", "due to", "following", "amid", "on", "because of">> \o
    (IF positive THEN <<"boosted by", "lifted by", "supported by", "driven by">>
     ELSE <<"dragged by", "pressured by", "weighed by", "hit by">>)

\* _extract_reason, lines 315-317: reason_text cut to its first 8 words
limited_reason(reason_text) ==
    IF Len(split(reason_text)) > 8 THEN Join(SubSeq(split(reason_text), 1, 8), " ") ELSE reason_text

\* _extract_reason, lines 310-322: the reason read after the indicator found
reason_after(text, indicator) ==
    indicator \o " " \o
    rstrip_chars(limited_reason(strip(From(text, find(text, indicator) + Len(indicator) + 1))),
                 {".", ",", ";", ":"})

\* _extract_reason, lines 307-324: the loop over the indicators
first_reason(text, indicators) ==
    LET found == {k \in 1..Len(indicators) : Contains(text, indicators[k])}
    IN IF found = {} THEN "" ELSE reason_after(text, indicators[SetMin(found)])

\* ContentAnalyzer._extract_reason
extract_reason(text, positive) == first_reason(text, reason_indicators(positive))

\* _extract_market_movements, lines 256-269: the insight text
insight_text(index_name, positive, amount, reason) ==
    IF reason # ""
    THEN index_name \o (IF positive THEN " gained " ELSE " fell ") \o amount \o "% " \o reason \o "."
    ELSE index_name \o (IF positive THEN " is up " ELSE " is down ") \o amount \o "%."

\* _extract_market_movements: the insight appended for index_name and the first
\* percentage of the window
movement_insight(index_name, window, change) ==
    insight_text(index_name, float_is_positive(change), float_abs_str(change),
                 extract_reason(window, float_is_positive(change)))

\* _extract_market_movements: how many insights end both loops
max_movement_insights == 3

\* _extract_market_movements: half the width of the window around the index mention
window_reach == 50

\* f"{title} {content}" lowered, as generate_market_insight and
\* _extract_market_movements read an article
lowered_text(article) == lower(article.title) \o " " \o lower(article.content)

\* _extract_market_movements, lines 242-244: the window around the index mention
index_window(text, idx_pos) ==
    SubSeq(text, Max(0, idx_pos - window_reach) + 1, Min(Len(text), idx_pos + window_reach))

RECURSIVE movements_in_text(_, _, _, _)
RECURSIVE movements_at_index(_, _, _, _, _)
RECURSIVE movements_in_window(_, _, _, _, _, _, _)
RECURSIVE movements_after_insight(_, _, _, _)

\* _extract_market_movements: the loop over term_mapping.keys() for one article,
\* from place k on; st holds insights and reported_indices
movements_in_text(text, k, check_indices, st) ==
    IF k > Len(term_mapping_keys) THEN st
    ELSE movements_at_index(text, k, check_indices, st, lower(term_mapping_keys[k]))

\* lines 229-247: the body of that loop for idx_lower
movements_at_index(text, k, check_indices, st, idx_lower) ==
    IF \/ (check_indices # <<>> /\ idx_lower \notin Range(check_indices))
       \/ idx_lower \in st.reported_indices
       \/ ~Contains(text, idx_lower)
    THEN movements_in_text(text, k + 1, check_indices, st)
    ELSE movements_in_window(text, k, check_indices, st, idx_lower,
                             index_window(text, find(text, idx_lower)),
                             findall_percentage(index_window(text, find(text, idx_lower))))

\* lines 248-272: the insight of the window, when it has a percentage
movements_in_window(text, k, check_indices, st, idx_lower, window, window_matches) ==
    IF window_matches = <<>> THEN movements_in_text(text, k + 1, check_indices, st)
    ELSE movements_after_insight(text, k, check_indices,
             [insights |-> Append(st.insights,
                                  movement_insight(term_mapping[idx_lower], window,
                                                   float_of(window_matches[1]))),
              reported_indices |-> st.reported_indices \cup {idx_lower}])

\* lines 275-276: the loop ends at max_movement_insights insights
movements_after_insight(text, k, check_indices, marked) ==
    IF Len(marked.insights) >= max_movement_insights THEN marked
    ELSE movements_in_text(text, k + 1, check_indices, marked)

RECURSIVE movements_in_articles(_, _, _, _)
RECURSIVE movements_after_article(_, _, _, _, _)
RECURSIVE movements_after_insight_of(_, _, _, _)

\* _extract_market_movements: the loop over articles, from place i on
movements_in_articles(articles, i, check_indices, st) ==
    IF i > Len(articles) THEN st
    ELSE movements_after_article(articles, i, check_indices, st, lowered_text(articles[i]))

\* lines 223-283: the body of that loop for the text of article i
movements_after_article(articles, i, check_indices, st, text) ==
    IF findall_percentage(text) = <<>> THEN movements_in_articles(articles, i + 1, check_indices, st)
    ELSE movements_after_insight_of(articles, i, check_indices,
                                    movements_in_text(text, 1, check_indices, st))

\* lines 282-283: the loop ends at max_movement_insights insights
movements_after_insight_of(articles, i, check_indices, after) ==
    IF Len(after.insights) >= max_movement_insights THEN after
    ELSE movements_in_articles(articles, i + 1, check_indices, after)

\* ContentAnalyzer._extract_market_movements
extract_market_movements(articles, country) ==
    movements_in_articles(articles, 1, check_indices_of(country),
                          [insights |-> <<>>, reported_indices |-> {}]).insights

\* ContentAnalyzer.market_terms
market_terms ==
    [global |-> <<"market", "stock", "equity", "trade", "investor", "economy", "bull", "bear",
                  "volatile", "rally", "correction", "crash", "investment", "dividend", "yield",
                  "bond", "treasury", "etf", "index", "portfolio", "fund", "asset", "derivative",
                  "hedge", "inflation", "recession", "growth", "interest rate", "fed",
                  "central bank">>,
     us |-> <<"dow", "nasdaq", "s&p", "s&p 500", "djia", "nyse", "wall street", "russell", "ftse",
              "dax", "federal reserve", "fed", "powell", "treasury", "yellen", "sec", "nyse",
              "wall st">>,
     india |-> <<"sensex", "nifty", "bse", "nse", "rbi", "sebi", "dalal street",
                 "bombay stock exchange", "national stock exchange", "reserve bank of india">>]

\* an article whose content is None (article.get('content', '') returns None)
content_is_None(article) == "content_is_None" \in DOMAIN article

UpperTable == [c \in CharsOf(LowerCase) |-> Ch(UpperCase, IndexIn(c, LowerCase))]

RECURSIVE title_from(_, _)
\* str.title() of s, the character before s being a letter or not
title_from(s, after_letter) ==
    IF s = "" THEN ""
    ELSE LET c == Ch(s, 1)
             letter == c \in CharsOf(LowerCase) \/ c \in UpperChars
         IN (IF ~letter THEN c
             ELSE IF after_letter THEN LowerChar(c)
             ELSE IF c \in UpperChars THEN c ELSE UpperTable[c])
                \o title_from(From(s, 2), letter)

\* str.title()
title_case(s) == title_from(s, FALSE)

RECURSIVE replace(_, _, _)
\* str.replace(old, new), old not empty
replace(s, old, new) ==
    IF Len(s) < Len(old) THEN s
    ELSE IF startswith(s, old) THEN new \o replace(From(s, Len(old) + 1), old, new)
    ELSE Ch(s, 1) \o replace(From(s, 2), old, new)

\* how often x occurs in seq
Times(seq, x) == Cardinality({i \in 1..Len(seq) : seq[i] = x})

\* the keys of a dict that counts the elements of seq, in insertion order
Distinct(seq) ==
    LET firsts == {i \in 1..Len(seq) : \A j \in 1..(i - 1) : seq[j] # seq[i]}
    IN [k \in 1..Cardinality(firsts) |->
           seq[CHOOSE i \in firsts : Cardinality({j \in firsts : j < i}) = k - 1]]

\* sorted(counts.items(), key=lambda x: x[1], reverse=True): the keys of the
\* dict that counts the elements of seq, the most counted first
most_counted(seq) ==
    LET keys == Distinct(seq)
    IN StableSortDesc(keys, {p \in Places(keys) : Times(seq, keys[p[1]]) > Times(seq, keys[p[2]])})

\* seq[:n]
FirstN(seq, n) == SubSeq(seq, 1, Min(n, Len(seq)))

\* generate_market_insight: terms_to_check ("" is country=None)
terms_to_check(country) ==
    market_terms.global \o
    (IF country # "" /\ country \in DOMAIN market_terms THEN market_terms[country]
     ELSE market_terms.global \o market_terms.us \o market_terms.india)

\* the terms that, lowered, are found in text
terms_in(text, terms) == SelectSeq(terms, LAMBDA term : Contains(text, lower(term)))

RECURSIVE term_mentions(_, _)
\* generate_market_insight, lines 142-150: the terms counted, one entry for each
\* increment of term_counts, in the order of the increments
term_mentions(articles, terms) ==
    IF articles = <<>> THEN <<>>
    ELSE terms_in(lowered_text(Head(articles)), terms) \o term_mentions(Tail(articles), terms)

RECURSIVE title_words(_)
\* _identify_themes, lines 337-341: all_words
title_words(articles) ==
    IF articles = <<>> THEN <<>>
    ELSE LET words == SelectSeq(split(clean_text(Head(articles).title)), LAMBDA w : Len(w) > 3)
         IN [k \in 1..Len(words) |-> lower(words[k])] \o title_words(Tail(articles))

\* ContentAnalyzer._identify_themes
identify_themes(articles) ==
    LET all_words == title_words(articles)
        themes == SelectSeq(Distinct(all_words), LAMBDA word : Times(all_words, word) >= 2)
    IN FirstN(StableSortDesc(themes, {p \in Places(themes) :
                                          Times(all_words, themes[p[1]]) > Times(all_words, themes[p[2]])}),
              3)

\* term_mapping.get(term, term.title())
formatted_term(term) == IF term \in DOMAIN term_mapping THEN term_mapping[term] ELSE title_case(term)

\* generate_market_insight, lines 171-174: top_term_names
top_term_names(top_terms) == [k \in 1..Len(top_terms) |-> formatted_term(lower(top_terms[k]))]

\* generate_market_insight, lines 157-177: insights
insights_of(movement_insights, themes, formatted_terms) ==
    movement_insights
        \o (IF themes # <<>> THEN <<"Key themes: " \o Join(themes, ", ") \o ".">> ELSE <<>>)
        \o (IF formatted_terms # <<>> THEN <<"Market focus: " \o Join(formatted_terms, ", ") \o ".">>
            ELSE <<>>)

\* generate_market_insight, lines 180-183: what it returns for insights
insights_text(insights) ==
    IF insights # <<>> THEN Join(insights, " ")
    ELSE "No significant market insights detected from recent news."

\* ContentAnalyzer.generate_market_insight: raised tells that it raised (reading
\* the content of an article whose content is None, line 145)
generate_market_insight(articles, country) ==
    IF articles = <<>> THEN [raised |-> FALSE, insights |-> "No recent market data available for insights."]
    ELSE IF \E i \in 1..Len(articles) : content_is_None(articles[i])
    THEN [raised |-> TRUE, insights |-> ""]
    ELSE [raised |-> FALSE,
          insights |->
              insights_text(
                  insights_of(extract_market_movements(articles, country), identify_themes(articles),
                              top_term_names(FirstN(most_counted(term_mentions(articles,
                                                                               terms_to_check(country))),
                                                    5))))]

RECURSIVE split_sentences(_)
\* re.split(r'(?<=[.!?])\s+', s)
split_sentences(s) ==
    LET breaks == {i \in 2..Len(s) : IsSpace(Ch(s, i)) /\ Ch(s, i - 1) \in {".", "!", "?"}}
    IN IF breaks = {} THEN <<s>>
       ELSE LET at == SetMin(breaks)
            IN <<SubSeq(s, 1, at - 1)>> \o split_sentences(From(s, at + SpaceLen(From(s, at))))

\* sum(len(s) for s in sentences)
RECURSIVE total_length(_)
total_length(sentences) ==
    IF sentences = <<>> THEN 0 ELSE Len(Head(sentences)) + total_length(Tail(sentences))

\* summarize_article: the longest summary, and the length below which three
\* sentences are taken
summary_ceiling == 280
three_sentence_ceiling == 200

\* summarize_article, lines 426-429: the sentences taken
leading_sentences(sentences) ==
    IF Len(sentences) >= 3 /\ total_length(FirstN(sentences, 3)) < three_sentence_ceiling
    THEN Join(FirstN(sentences, 3), " ")
    ELSE IF Len(sentences) >= 2 THEN Join(FirstN(sentences, 2), " ")
    ELSE sentences[1]

\* summarize_article, lines 432-433: the summary cut to summary_ceiling
ceiled_summary(summary) ==
    IF Len(summary) > summary_ceiling THEN PyPrefix(summary, summary_ceiling - 3) \o "..." ELSE summary

\* ContentAnalyzer.summarize_article
summarize_article(article) ==
    IF content_is_None(article) \/ article.content = ""
    THEN (IF article.title = "" THEN "No content available for summarization." ELSE article.title)
    ELSE ceiled_summary(leading_sentences(split_sentences(clean_text(article.content))))

RECURSIVE key_points_from(_, _)
\* extract_key_points, lines 455-467: key_points of the articles left, seen_points
\* holding the lowered titles taken so far
key_points_from(articles, seen_points) ==
    IF articles = <<>> THEN <<>>
    ELSE LET title == Head(articles).title
         IN IF title = "" \/ lower(title) \in seen_points
            THEN key_points_from(Tail(articles), seen_points)
            ELSE <<strip(replace(title, "...", ""))>>
                     \o key_points_from(Tail(articles), seen_points \cup {lower(title)})

\* ContentAnalyzer.extract_key_points
extract_key_points(articles, count) == FirstN(key_points_from(articles, {}), count)

\* generate_comprehensive_analysis: count=3 of extract_key_points, and the number
\* of trending topics and of topics named in the summary
key_points_count == 3
trending_topics_count == 5
summary_topics_count == 3

\* generate_comprehensive_analysis, line 502: f"{title} {content}" cleaned
trending_text(article) ==
    clean_text(article.title \o " " \o (IF content_is_None(article) THEN "None" ELSE article.content))

RECURSIVE trending_mentions(_)
\* generate_comprehensive_analysis, lines 501-508: the global terms counted
trending_mentions(articles) ==
    IF articles = <<>> THEN <<>>
    ELSE terms_in(lower(trending_text(Head(articles))), market_terms.global)
             \o trending_mentions(Tail(articles))

\* generate_comprehensive_analysis, lines 510-512: trending_topics
trending_topics_of(sorted_terms) ==
    [k \in 1..Min(trending_topics_count, Len(sorted_terms)) |-> formatted_term(sorted_terms[k])]

\* generate_comprehensive_analysis, lines 514-521: summary ("" is query=None)
analysis_summary(query, trending_topics) ==
    IF query # "" THEN "Here's what I found about '" \o query \o "':"
    ELSE IF trending_topics # <<>>
    THEN "Current market focus is on " \o Join(FirstN(trending_topics, summary_topics_count), ", ") \o "."
    ELSE "Here's the latest from the financial markets:"

\* generate_comprehensive_analysis, lines 523-528: what it returns, or that it
\* raised when generate_market_insight did
analysis_of(key_points, insight, trending_topics, query) ==
    IF insight.raised
    THEN [raised |-> TRUE, summary |-> "", key_points |-> <<>>, insights |-> "", trending_topics |-> <<>>]
    ELSE [raised |-> FALSE, summary |-> analysis_summary(query, trending_topics),
          key_points |-> key_points, insights |-> insight.insights, trending_topics |-> trending_topics]

\* ContentAnalyzer.generate_comprehensive_analysis ("" is query=None); raised
\* tells that it raised and returned nothing
generate_comprehensive_analysis(articles, query) ==
    IF articles = <<>>
    THEN [raised |-> FALSE, summary |-> "No articles available for analysis.", key_points |-> <<>>,
          insights |-> "", trending_topics |-> <<>>]
    ELSE analysis_of(extract_key_points(articles, key_points_count),
                     generate_market_insight(articles, ""),
                     trending_topics_of(most_counted(trending_mentions(articles))), query)

\* ------------------------------------------------------------------------
\* marketbot/services/news_service.py
\* ------------------------------------------------------------------------

\* NewsService.__init__: self.financial_sites, in insertion order
financial_sites == <<"moneycontrol", "financial_express", "economic_times", "yahoo_finance", "cnbc", "marketwatch">>

country_sources ==
    [us |-> <<"yahoo_finance", "cnbc", "marketwatch">>,
     india |-> <<"moneycontrol", "financial_express", "economic_times">>]

topic_countries ==
    [t \in {"us", "usa", "united states", "america", "wall street", "dow", "nasdaq", "s&p",
            "india", "sensex", "nifty", "bse", "nse"} |->
        IF t \in {"india", "sensex", "nifty", "bse", "nse"} THEN "india" ELSE "us"]

\* fetch_news_from_all_sources: the site-scrape providers selected for a country
sources_to_use(country) ==
    IF country # "" /\ country \in DOMAIN country_sources THEN country_sources[country] ELSE financial_sites

\* the providers one call of fetch_news_from_all_sources invokes, in order
ProvidersOf(country) == <<"google_news">> \o sources_to_use(country)

\* the list left in the order the providers returned it
sort_by_publishedAt_left_unsorted(news) == news

\* key=lambda x: x.get("publishedAt", ""), reverse=True
sort_by_publishedAt(news) ==
    StableSortDesc(news, {p \in Places(news) : StrLess(news[p[2]].publishedAt, news[p[1]].publishedAt)})

\* the query's terms with the stopwords left in
query_terms_with_stopwords(query) == split(clean_text(query))

\* filter_articles_by_query: the query's terms that are no stopwords
query_terms_of(query) == SelectSeq(split(clean_text(query)), LAMBDA term : lower(term) \notin STOPWORDS)

\* filter_articles_by_query: the number of query terms found in an article
match_count_of(article, query_terms) ==
    LET article_text == clean_text(article.title \o " " \o article.content)
    IN Cardinality({i \in 1..Len(query_terms) : Contains(lower(article_text), lower(query_terms[i]))})

\* a relevance score match_count / len(query_terms) is the pair of the two; a
\* score is greater than another as the fractions are
ScoreGt(s, t) == s[1] * t[2] > t[1] * s[2]

\* filter_articles_by_query: whether the division of line 160 divides by zero
filter_divides_by_zero(articles, query) ==
    /\ query # ""
    /\ Len(query_terms_of(query)) = 0
    /\ \E i \in 1..Len(articles) : match_count_of(articles[i], query_terms_of(query)) > 0

filter_articles_by_query(articles, query) ==
    IF query = "" THEN articles
    ELSE LET query_terms == query_terms_of(query)
             scored == [i \in 1..Len(articles) |->
                           ("relevance_score" :> <<match_count_of(articles[i], query_terms), Len(query_terms)>>)
                               @@ articles[i]]
             filtered_articles == SelectSeq(scored, LAMBDA article : article.relevance_score[1] > 0)
         IN StableSortDesc(filtered_articles,
                           {p \in Places(filtered_articles) :
                               ScoreGt(filtered_articles[p[1]].relevance_score,
                                       filtered_articles[p[2]].relevance_score)})

RECURSIVE remove_duplicates_titles_kept(_, _)
\* the duplicates removed with a seen_titles that outlives the call: the titles
\* returned by the remembered invocation count as seen
remove_duplicates_titles_kept(articles, seen_titles) ==
    IF articles = <<>> THEN <<>>
    ELSE LET title == lower(Head(articles).title)
             kept == {lower(svc_earlier.result.articles[i].title) : i \in 1..Len(svc_earlier.result.articles)}
         IN IF title # "" /\ title \notin seen_titles \cup kept
            THEN <<Head(articles)>> \o remove_duplicates_titles_kept(Tail(articles), seen_titles \cup {title})
            ELSE remove_duplicates_titles_kept(Tail(articles), seen_titles)

RECURSIVE remove_duplicates(_, _)
\* get_market_news: "Remove duplicates by title"
remove_duplicates(articles, seen_titles) ==
    IF articles = <<>> THEN <<>>
    ELSE LET title == lower(Head(articles).title)
         IN IF title # "" /\ title \notin seen_titles
            THEN <<Head(articles)>> \o remove_duplicates(Tail(articles), seen_titles \cup {title})
            ELSE remove_duplicates(Tail(articles), seen_titles)

\* the list handed on without the cut
limit_articles_not_cut(articles, limit) == articles

\* articles[:limit] of the entry points (limit is not negative)
limit_articles(articles, limit) == FirstN(articles, limit)

\* article['summary'] = summary
WithSummary(article, summary) == ("summary" :> summary) @@ article

RECURSIVE upper(_)
\* str.upper()
upper(s) ==
    IF s = "" THEN ""
    ELSE (IF Ch(s, 1) \in CharsOf(LowerCase) THEN UpperTable[Ch(s, 1)] ELSE Ch(s, 1)) \o upper(From(s, 2))

\* the steps of an entry point after the articles are limited; one of them may
\* raise ("none": none does)
TailFaults == {"none", "summarize_article", "generate_comprehensive_analysis", "format_enhanced_news"}

\* the keys of the analysis dict an entry point returns
analysis_dict(analysis) ==
    [summary |-> analysis.summary, key_points |-> analysis.key_points, insights |-> analysis.insights,
     trending_topics |-> analysis.trending_topics]

\* get_market_news: f"{' - ' + country.upper() if country else ''}"
country_suffix(country) == IF country # "" THEN " - " \o upper(country) ELSE ""

\* what an entry point returns: the dict, fetched (the articles
\* fetch_news_from_all_sources returned to it) and the step that raised
returned_dict(fetched, articles, analysis, formatted_message, fault) ==
    [raised |-> FALSE, fetched |-> fetched, articles |-> articles, count |-> Len(articles),
     analysis |-> analysis, formatted_message |-> formatted_message, fault |-> fault]

\* what an entry point that raised leaves to its caller
raised_result(fetched, fault) ==
    [raised |-> TRUE, fetched |-> fetched, articles |-> <<>>, count |-> 0, analysis |-> <<>>,
     formatted_message |-> "", fault |-> fault]

\* get_market_news, lines 214-217: "if summary: article['summary'] = summary"
summary_set_if_any(article, summary) == IF summary # "" THEN WithSummary(article, summary) ELSE article

\* get_market_news, lines 214-217: the loop over limited_articles
market_summaries(limited_articles) ==
    [i \in 1..Len(limited_articles) |->
        summary_set_if_any(limited_articles[i], summarize_article(limited_articles[i]))]

\* get_market_news, lines 222-235: the message of the try block, or the except
\* block when a step raised (summarize_article: at the first article); "#" is
\* for the emoji of a title
market_news_message(fetched, limited_articles, summarized, analysis, country, fault) ==
    IF fault = "none" /\ ~analysis.raised
    THEN returned_dict(fetched, summarized, analysis_dict(analysis),
                       format_enhanced_news(summarized, analysis,
                                            "# Market News" \o country_suffix(country),
                                            enhanced_max_articles),
                       fault)
    ELSE returned_dict(fetched, IF fault = "summarize_article" THEN limited_articles ELSE summarized,
                       [summary |-> "Market news summary unavailable."],
                       format_news_articles(IF fault = "summarize_article" THEN limited_articles
                                            ELSE summarized,
                                            "# Latest Market News" \o country_suffix(country),
                                            news_max_articles),
                       fault)

\* get_market_news, lines 212-235: the try block and its except
market_news_try(fetched, limited_articles, summarized, query, country, fault) ==
    market_news_message(fetched, limited_articles, summarized,
                        generate_comprehensive_analysis(summarized, query), country, fault)

\* get_market_news, lines 202-242: from limited_articles on
market_news_of(fetched, limited_articles, query, country, fault) ==
    IF limited_articles = <<>>
    THEN returned_dict(fetched, <<>>, <<>>, "No news articles found.", "none")
    ELSE market_news_try(fetched, limited_articles, market_summaries(limited_articles), query,
                         country, fault)

\* get_market_news, from the fetched articles on
market_news_result(articles, limit, query, country, fault) ==
    market_news_of(articles, limit_articles(remove_duplicates(articles, {}), limit), query, country, fault)

\* get_topic_news: topic_title ("#" is for the emoji, "##" for a flag)
topic_title_of(topic) ==
    LET topic_lower == lower(topic)
        country == IF topic_lower \in DOMAIN topic_countries THEN topic_countries[topic_lower] ELSE ""
    IN IF country = "us" THEN "## US Market News"
       ELSE IF country = "india" THEN "## Indian Market News"
       ELSE "# " \o title_case(topic) \o " News"

\* get_topic_news, lines 285-287: the loop over limited_articles
topic_summaries(limited_articles) ==
    [i \in 1..Len(limited_articles) |->
        WithSummary(limited_articles[i], summarize_article(limited_articles[i]))]

\* get_topic_news, lines 292-305: the message and the dict returned
topic_news_message(fetched, summarized, analysis, topic) ==
    IF analysis.raised THEN raised_result(fetched, "none")
    ELSE returned_dict(fetched, summarized, analysis_dict(analysis),
                       format_enhanced_news(summarized, analysis, topic_title_of(topic),
                                            enhanced_max_articles),
                       "none")

\* get_topic_news, lines 282-305: from limited_articles on (no step is inside a try)
topic_news_of(fetched, limited_articles, summarized, topic, fault) ==
    IF limited_articles # <<>> /\ fault # "none" THEN raised_result(fetched, fault)
    ELSE topic_news_message(fetched, summarized, generate_comprehensive_analysis(summarized, topic),
                            topic)

\* get_topic_news, from the fetched articles on
topic_news_result(articles, topic, limit, fault) ==
    IF filter_divides_by_zero(articles, topic) THEN raised_result(articles, "none")
    ELSE topic_news_of(articles, limit_articles(filter_articles_by_query(articles, topic), limit),
                       topic_summaries(limit_articles(filter_articles_by_query(articles, topic), limit)),
                       topic, fault)

\* get_technical_analysis: limit: int = 7
TechnicalLimit == 7

\* get_technical_analysis, lines 329-338: from limited_articles on
technical_analysis_of(fetched, limited_articles) ==
    returned_dict(fetched, limited_articles, <<>>,
                  format_news_articles(limited_articles, "# Technical Analysis", news_max_articles),
                  "none")

\* get_technical_analysis, from the fetched articles on
technical_analysis_result(articles, limit) ==
    technical_analysis_of(articles,
                          limit_articles(filter_articles_by_query(articles, "technical analysis"), limit))

\* ------------------------------------------------------------------------
\* marketbot/handlers/news_handlers.py
\* ------------------------------------------------------------------------

\* news_command sending the digest whatever the count is
news_command_reply_count_unchecked(news_data) ==
    IF news_data.raised
    THEN "Sorry, I encountered an error while fetching market news. Please try again later."
    ELSE news_data.formatted_message

\* news_command: the text it sends after get_market_news returned news_data, or
\* raised
news_command_reply(news_data) ==
    IF news_data.raised
    THEN "Sorry, I encountered an error while fetching market news. Please try again later."
    ELSE IF news_data.count > 0 THEN news_data.formatted_message
    ELSE "Sorry, I couldn't find any market news at the moment. Please try again later."

\* topic_news_command: the text it sends after get_topic_news(topic) returned
\* news_data, or raised
topic_news_command_reply(topic, news_data) ==
    IF news_data.raised
    THEN "Sorry, I encountered an error while fetching topic news. Please try again later."
    ELSE IF news_data.count > 0 THEN news_data.formatted_message
    ELSE "Sorry, I couldn't find any news for the topic '" \o topic \o "' at the moment. "
             \o "Please try again later or try a different topic."

\* ------------------------------------------------------------------------
\* NewsService: inputs
\* ------------------------------------------------------------------------

\* an article as normalize_article shapes it; the providers extract no content
Article(title, url, source_name, published_at) ==
    normalize_article([title |-> title, url |-> url, source |-> PyDict("name" :> PyStr(source_name)),
                       publishedAt |-> published_at])

\* the articles the providers can return: three whose titles differ in case or
\* punctuation only, with and without a timestamp, and one on another subject
SampleArticles ==
    {Article("Oil up", "https://cnbc.com/1", "CNBC", "2023-01-02"),
     Article("OIL UP", "https://news.google.com/articles/2", "Reuters", ""),
     Article("Oil up!", "https://moneycontrol.com/3", "MoneyControl", "2023-01-03"),
     Article("US oil gold", "https://marketwatch.com/4", "MarketWatch", "2023-01-01")}

\* the articles the providers can return to get_technical_analysis: both terms
\* of its filter in the title, one, none
TechnicalArticles ==
    {Article("Nifty technical analysis", "https://moneycontrol.com/6", "MoneyControl", "2023-01-02"),
     Article("Gold chart analysis", "https://news.google.com/articles/7", "Reuters", ""),
     Article("Oil up", "https://cnbc.com/1", "CNBC", "2023-01-02")}

\* an article with body text, for direct calls of filter_articles_by_query
ContentArticle ==
    normalize_article([title |-> "Markets", url |-> "https://example.com/5",
                       source |-> PyDict("name" :> PyStr("Test News")), publishedAt |-> "2023-01-04",
                       time |-> "1 hour ago", content |-> "Gold up. Don't sell."])

\* the most articles all providers of one call return together
MaxArticles == 3

\* get_market_news / get_topic_news: limit: int = 10
DefaultLimit == 10

\* (query, country, limit) of get_market_news: no query, a free-text query with
\* a limit that cuts, and get_country_news("us")
MarketArgs ==
    {<<"", "", DefaultLimit>>, <<"gold", "", 2>>, <<GOOGLE_NEWS_SEARCH_QUERIES.us, "us", DefaultLimit>>}

\* (topic, limit) of get_topic_news: one term, two terms with a limit that cuts,
\* a country, a stopword
TopicArgs ==
    {<<"gold", DefaultLimit>>, <<"oil gold", 2>>, <<"us", DefaultLimit>>, <<"the", DefaultLimit>>}

\* limit of get_technical_analysis: one that cuts, and the default
TechnicalLimits == {2, TechnicalLimit}

\* queries of direct calls of filter_articles_by_query: none, stopwords only,
\* punctuation only, a stopword that clean_text changes, one term, two terms
FilterQueries == {"", "the", "up", "Up the", "$", "don't", "oil", "oil gold"}

NoCall == [op |-> "", query |-> "", limit |-> 0, country |-> "", google_query |-> ""]
NoResult ==
    [raised |-> FALSE, fetched |-> <<>>, articles |-> <<>>, count |-> 0, analysis |-> <<>>,
     formatted_message |-> "", fault |-> "none"]

\* ------------------------------------------------------------------------
\* NewsService: operations
\* ------------------------------------------------------------------------

\* the entry of fetch_news_from_all_sources (all_news = [])
StartFetch(call) ==
    /\ svc_pc' = "fetching"
    /\ svc_call' = call
    /\ all_news' = <<>>
    /\ invoked' = <<>>
    /\ returned' = <<>>
    /\ some_raised' = FALSE
    /\ svc_result' = NoResult
    /\ UNCHANGED non_svc_vars

\* get_market_news up to its call of fetch_news_from_all_sources
get_market_news(query, limit, country) ==
    /\ svc_pc = "idle"
    /\ StartFetch([op |-> "get_market_news", query |-> query, limit |-> limit, country |-> country,
                   google_query |->
                       IF country \in DOMAIN GOOGLE_NEWS_SEARCH_QUERIES
                       THEN (IF query = "" THEN GOOGLE_NEWS_SEARCH_QUERIES[country] ELSE query)
                       ELSE (IF query # "" THEN query ELSE "global stock markets")])

\* get_topic_news up to its call of fetch_news_from_all_sources
get_topic_news(topic, limit) ==
    LET topic_lower == lower(topic)
    IN /\ svc_pc = "idle"
       /\ StartFetch([op |-> "get_topic_news", query |-> topic, limit |-> limit,
                      country |-> IF topic_lower \in DOMAIN topic_countries THEN topic_countries[topic_lower] ELSE "",
                      google_query |->
                          IF topic_lower \in DOMAIN GOOGLE_NEWS_SEARCH_QUERIES
                          THEN GOOGLE_NEWS_SEARCH_QUERIES[topic_lower]
                          ELSE topic \o " stock market"])

\* get_technical_analysis up to its call of fetch_news_from_all_sources
get_technical_analysis(limit) ==
    /\ svc_pc = "idle"
    /\ StartFetch([op |-> "get_technical_analysis", query |-> "technical analysis", limit |-> limit,
                   country |-> "",
                   google_query |-> "stock market technical analysis chart pattern support resistance"])

\* the provider the running fetch invokes next
NextProvider == ProvidersOf(svc_call.country)[Len(invoked) + 1]

Fetching == svc_pc = "fetching" /\ Len(invoked) < Len(ProvidersOf(svc_call.country))

\* the article lists a provider may return now
ProviderOutputs ==
    SeqsUpTo(IF svc_call.op = "get_technical_analysis" THEN TechnicalArticles ELSE SampleArticles,
             MaxArticles - Len(all_news))

\* a provider returned site_news: all_news.extend(site_news)
ProviderReturned(out) ==
    /\ invoked' = Append(invoked, NextProvider)
    /\ all_news' = all_news \o out
    /\ returned' = returned \o out
    /\ UNCHANGED <<svc_pc, svc_call, some_raised, svc_result, non_svc_vars>>

\* a provider raised and the except clause caught it: the error is logged
ProviderErrorLogged ==
    /\ invoked' = Append(invoked, NextProvider)
    /\ some_raised' = TRUE
    /\ UNCHANGED <<svc_pc, svc_call, all_news, returned, svc_result, non_svc_vars>>

\* a provider raised and nothing caught it: the entry point raises
ProviderErrorPropagates ==
    /\ invoked' = Append(invoked, NextProvider)
    /\ some_raised' = TRUE
    /\ svc_pc' = "done"
    /\ svc_result' = [NoResult EXCEPT !.raised = TRUE]
    /\ UNCHANGED <<svc_call, all_news, returned, non_svc_vars>>

\* fetch_news_from_all_sources: what an exception of a provider leads to
\* (both calls are inside try ... except Exception)
OnProviderError == ProviderErrorLogged

\* fetch_news_from_all_sources, lines 108-111: the search-query provider returns
google_news_returns(out) ==
    /\ Fetching /\ NextProvider = "google_news"
    /\ ProviderReturned(out)

\* lines 112-113: the search-query provider raises
google_news_raises ==
    /\ Fetching /\ NextProvider = "google_news"
    /\ OnProviderError

\* lines 116-124: a site-scrape provider returns
financial_site_returns(out) ==
    /\ Fetching /\ NextProvider # "google_news"
    /\ ProviderReturned(out)

\* lines 125-126: a site-scrape provider raises
financial_site_raises ==
    /\ Fetching /\ NextProvider # "google_news"
    /\ OnProviderError

\* what the entry point of a call returns once fetch_news_from_all_sources has
\* returned articles to it
entry_point_result(call, articles, fault) ==
    IF call.op = "get_market_news"
    THEN market_news_result(articles, call.limit, call.query, call.country, fault)
    ELSE IF call.op = "get_topic_news"
    THEN topic_news_result(articles, call.query, call.limit, fault)
    ELSE technical_analysis_result(articles, call.limit)

\* fetch_news_from_all_sources sorts and returns, and the entry point that
\* called it runs to its return; fault is the step after the limit that raises
pipeline_returns(fault) ==
    /\ svc_pc = "fetching" /\ Len(invoked) = Len(ProvidersOf(svc_call.country))
    /\ fault = "none" \/ svc_call.op \in {"get_market_news", "get_topic_news"}
    /\ svc_pc' = "done"
    /\ svc_result' = entry_point_result(svc_call, sort_by_publishedAt(all_news), fault)
    /\ UNCHANGED <<svc_call, all_news, invoked, returned, some_raised, non_svc_vars>>

\* a direct call of filter_articles_by_query
filter_call(articles, query) ==
    /\ svc_pc = "idle"
    /\ svc_pc' = "done"
    /\ svc_call' = [op |-> "filter_articles_by_query", query |-> query, limit |-> 0, country |-> "",
                    google_query |-> ""]
    /\ all_news' = articles
    /\ invoked' = <<>>
    /\ returned' = <<>>
    /\ some_raised' = FALSE
    /\ svc_result' = [NoResult EXCEPT !.raised = filter_divides_by_zero(articles, query),
                                      !.articles = filter_articles_by_query(articles, query),
                                      !.count = Len(filter_articles_by_query(articles, query))]
    /\ UNCHANGED non_svc_vars

\* the caller has taken the result: the service waits for its next call
call_completed ==
    /\ svc_pc = "done"
    /\ svc_pc' = "idle"
    /\ svc_call' = NoCall
    /\ all_news' = <<>>
    /\ invoked' = <<>>
    /\ returned' = <<>>
    /\ some_raised' = FALSE
    /\ svc_result' = NoResult
    /\ UNCHANGED non_svc_vars

NoFormatCall == [op |-> "", max_length |-> 0, articles |-> <<>>, title |-> ""]

NoAnalyzerCall == [op |-> "", articles |-> <<>>, country |-> "", query |-> ""]

NoProviderCall == [op |-> "", site |-> "", max_articles |-> 0, query |-> "", country |-> "", article |-> <<>>]
NoProviderResult == [raised |-> FALSE, articles |-> <<>>]

\* no invocation remembered
NoEarlier == [call |-> NoCall, returned |-> <<>>, result |-> NoResult]

NoAdminCall == [user_id |-> "", has_message |-> FALSE, warned_before |-> FALSE]
NoAdminResult == [handler_ran |-> FALSE, replies |-> <<>>, raised |-> FALSE]

\* no user has been sent a restriction message
NoneRestricted == <<>>

\* no command handled yet
NoCommand ==
    [command |-> "", user_id |-> "", chat_id |-> "", handler_ran |-> FALSE, replies |-> <<>>,
     subscribed_before |-> {}]

\* no handler has run for any chat
NoneAccepted == <<>>

\* the state after construction: no call is running
Init ==
    /\ svc_pc = "idle"
    /\ svc_call = NoCall
    /\ all_news = <<>>
    /\ invoked = <<>>
    /\ returned = <<>>
    /\ some_raised = FALSE
    /\ svc_result = NoResult
    /\ prov_pc = "idle"
    /\ prov_call = NoProviderCall
    /\ prov_url = 1
    /\ prov_articles = <<>>
    /\ prov_pages = <<>>
    /\ prov_fetches = <<>>
    /\ prov_result = NoProviderResult
    /\ fmt_pc = "idle"
    /\ fmt_call = NoFormatCall
    /\ fmt_message = ""
    /\ fmt_result = ""
    /\ fmt_again = ""
    /\ an_pc = "idle"
    /\ an_call = NoAnalyzerCall
    /\ an_result = <<>>
    /\ svc_earlier = NoEarlier
    /\ adm_pc = "unloaded"
    /\ ADMIN_USER_ID = ""
    /\ WARNED_USERS = {}
    /\ adm_call = NoAdminCall
    /\ adm_result = NoAdminResult
    /\ adm_restricted = NoneRestricted
    /\ subscribed_users = {}
    /\ sub_call = NoCommand
    /\ sub_last_accepted = NoneAccepted
    /\ upd_pc = "idle"
    /\ upd_chat = ""
    /\ upd_queue = <<>>
    /\ upd_log = <<>>
    /\ upd_before = {}
    /\ upd_concurrent = FALSE
    /\ upd_pipeline = 0

Next ==
    \/ \E a \in MarketArgs : get_market_news(a[1], a[3], a[2])
    \/ \E a \in TopicArgs : get_topic_news(a[1], a[2])
    \/ \E out \in ProviderOutputs : google_news_returns(out)
    \/ google_news_raises
    \/ \E out \in ProviderOutputs : financial_site_returns(out)
    \/ financial_site_raises
    \/ \E limit \in TechnicalLimits : get_technical_analysis(limit)
    \/ \E fault \in TailFaults : pipeline_returns(fault)
    \/ \E articles \in SeqsUpTo(SampleArticles \cup {ContentArticle}, MaxArticles), query \in FilterQueries :
           filter_call(articles, query)
    \/ call_completed

Spec == Init /\ [][Next]_vars

\* ------------------------------------------------------------------------
\* NewsService: one invocation after another
\* ------------------------------------------------------------------------

\* the articles the providers can return
RepeatArticles ==
    {Article("Oil up", "https://cnbc.com/1", "CNBC", "2023-01-02"),
     Article("US oil gold", "https://marketwatch.com/4", "MarketWatch", "2023-01-01")}

\* the most articles all providers of one call return together
MaxRepeatArticles == 1

\* the article lists a provider may return now
RepeatOutputs == SeqsUpTo(RepeatArticles, MaxRepeatArticles - Len(all_news))

\* (query, country, limit) of get_market_news and (topic, limit) of get_topic_news
RepeatMarketArgs == {<<"", "us", DefaultLimit>>}
RepeatTopicArgs == {<<"gold", DefaultLimit>>}

\* the caller has taken the result of get_market_news or get_topic_news, and the
\* observer remembers the invocation: its call, what the providers returned to
\* it, and what it returned
invocation_remembered ==
    /\ svc_pc = "done"
    /\ svc_call.op \in {"get_market_news", "get_topic_news"}
    /\ svc_earlier' = [call |-> svc_call, returned |-> returned, result |-> svc_result]
    /\ svc_pc' = "idle"
    /\ svc_call' = NoCall
    /\ all_news' = <<>>
    /\ invoked' = <<>>
    /\ returned' = <<>>
    /\ some_raised' = FALSE
    /\ svc_result' = NoResult
    /\ UNCHANGED <<prov_vars, fmt_vars, an_vars, adm_vars, sub_vars, upd_vars>>

NextRepeatStep ==
    \/ \E a \in RepeatMarketArgs : get_market_news(a[1], a[3], a[2])
    \/ \E a \in RepeatTopicArgs : get_topic_news(a[1], a[2])
    \/ get_technical_analysis(TechnicalLimit)
    \/ \E out \in RepeatOutputs : google_news_returns(out)
    \/ google_news_raises
    \/ \E out \in RepeatOutputs : financial_site_returns(out)
    \/ financial_site_raises
    \/ \E fault \in TailFaults : pipeline_returns(fault)
    \/ call_completed
    \/ invocation_remembered

\* the NewsService called again and again, one earlier invocation remembered
SpecRepeat == Init /\ [][NextRepeatStep]_vars

\* ------------------------------------------------------------------------
\* marketbot/utils/decorators.py
\* ------------------------------------------------------------------------

\* text_processing.WHITELISTED_USER_IDS
WHITELISTED_USER_IDS == {"1186795432", "1295425639"}

\* text_processing.is_user_whitelisted
is_user_whitelisted(user_id) == user_id \in WHITELISTED_USER_IDS

\* decorators.ALLOW_ALL_USERS
ALLOW_ALL_USERS == FALSE

\* the reply of admin_only to a user it turns away
RestrictedReply == "Sorry, this command is restricted to the bot administrator only."

\* wrapped without line 50 (WARNED_USERS.add(user_id))
wrapped_warning_not_recorded(user_id, has_message, admin_user_id, warned_users) ==
    IF ALLOW_ALL_USERS \/ (admin_user_id # "" /\ user_id = admin_user_id) \/ is_user_whitelisted(user_id)
    THEN [handler_ran |-> TRUE, replies |-> <<>>, raised |-> FALSE, warned |-> warned_users]
    ELSE IF user_id \notin warned_users
    THEN [handler_ran |-> FALSE, replies |-> IF has_message THEN <<RestrictedReply>> ELSE <<>>,
          raised |-> ~has_message, warned |-> warned_users]
    ELSE [handler_ran |-> FALSE, replies |-> <<>>, raised |-> FALSE, warned |-> warned_users]

\* admin_only(func).wrapped, lines 36-55, for str(update.effective_user.id) =
\* user_id: whether func ran, the replies sent by the decorator, whether the call
\* raised (update.message is None where has_message is FALSE, and
\* update.message.reply_text is read), and WARNED_USERS after the call
wrapped(user_id, has_message, admin_user_id, warned_users) ==
    IF ALLOW_ALL_USERS \/ (admin_user_id # "" /\ user_id = admin_user_id) \/ is_user_whitelisted(user_id)
    THEN [handler_ran |-> TRUE, replies |-> <<>>, raised |-> FALSE, warned |-> warned_users]
    ELSE IF user_id \notin warned_users
    THEN [handler_ran |-> FALSE, replies |-> IF has_message THEN <<RestrictedReply>> ELSE <<>>,
          raised |-> ~has_message, warned |-> warned_users \cup {user_id}]
    ELSE [handler_ran |-> FALSE, replies |-> <<>>, raised |-> FALSE, warned |-> warned_users]

\* the values of the environment variable ADMIN_USER_ID: not set, "0", a user id
AdminUserIds == {"", "0", "12345"}

\* str(update.effective_user.id) of the calling users: the administrator, two
\* others, a whitelisted user
UserIds == {"12345", "67890", "24680", "1186795432"}

\* the import of marketbot.utils.decorators, lines 17-22
import_decorators(admin_user_id) ==
    /\ adm_pc = "unloaded"
    /\ adm_pc' = "idle"
    /\ ADMIN_USER_ID' = admin_user_id
    /\ WARNED_USERS' = {}
    /\ UNCHANGED <<adm_call, adm_result, adm_restricted, non_adm_vars>>

\* the most restriction messages counted for one user
MaxRestrictedCounted == 2

\* the restriction messages a user has been sent
restricted_count(user_id) == IF user_id \in DOMAIN adm_restricted THEN adm_restricted[user_id] ELSE 0

\* a call of a handler wrapped by admin_only has ended with outcome
wrapped_returns(user_id, has_message, outcome) ==
    /\ adm_pc' = "done"
    /\ adm_call' = [user_id |-> user_id, has_message |-> has_message,
                     warned_before |-> user_id \in WARNED_USERS]
    /\ adm_result' = [handler_ran |-> outcome.handler_ran, replies |-> outcome.replies,
                       raised |-> outcome.raised]
    /\ WARNED_USERS' = outcome.warned
    /\ adm_restricted' =
           IF outcome.replies = <<>> THEN adm_restricted
           ELSE (user_id :> Min(restricted_count(user_id) + Len(outcome.replies), MaxRestrictedCounted))
                    @@ adm_restricted
    /\ UNCHANGED <<ADMIN_USER_ID, non_adm_vars>>

\* a handler wrapped by admin_only is called with an update of user_id; the
\* update has a message (a command or text) or none (a callback query)
wrapped_call(user_id, has_message) ==
    /\ adm_pc = "idle"
    /\ wrapped_returns(user_id, has_message, wrapped(user_id, has_message, ADMIN_USER_ID, WARNED_USERS))

\* the dispatcher goes on to the next update; WARNED_USERS stays
wrapped_call_completed ==
    /\ adm_pc = "done"
    /\ adm_pc' = "idle"
    /\ adm_call' = NoAdminCall
    /\ adm_result' = NoAdminResult
    /\ UNCHANGED <<ADMIN_USER_ID, WARNED_USERS, adm_restricted, non_adm_vars>>

NextAdminStep ==
    \/ \E admin_user_id \in AdminUserIds : import_decorators(admin_user_id)
    \/ \E user_id \in UserIds, has_message \in BOOLEAN : wrapped_call(user_id, has_message)
    \/ wrapped_call_completed

\* the handlers wrapped by admin_only, called one update after another
SpecAdmin == Init /\ [][NextAdminStep]_vars

\* ------------------------------------------------------------------------
\* News providers: inputs
\* ------------------------------------------------------------------------

\* an article element of a site page, as the selectors and tag searches of
\* fetch_news see it: the text of the title element, the href of the link
\* element, the first heading (text, href of its link), the anchors (text,
\* href), the text of the time element; raises: extracting from it raises
SiteElement(title, link, heading, a_tags, time, raises) ==
    [title |-> title, link |-> link, heading |-> heading, a_tags |-> a_tags, time |-> time, raises |-> raises]

SampleElements ==
    {\* title and link under the site's own selectors
     SiteElement(Present(" Sensex up 300 points "), Present("/news/1"), Absent, <<>>, Present(" 2 hours ago "), FALSE),
     \* neither: a heading with a link
     SiteElement(Absent, Absent, Present([text |-> "RBI holds rates", href |-> Present("https://www.rbi.org.in/r")]),
                 <<>>, Absent, FALSE),
     \* a title without a link, and an anchor with text
     SiteElement(Present("Gold falls"), Absent, Absent,
                 <<[text |-> " ", href |-> Present("/img")], [text |-> "Read more", href |-> Present("gold")]>>,
                 Absent, FALSE),
     \* a title of whitespace only
     SiteElement(Present("   "), Present("/x"), Absent, <<[text |-> "Share", href |-> Absent]>>, Absent, FALSE),
     \* a link element with an empty href
     SiteElement(Present("Rupee weakens"), Present(""), Absent, <<>>, Absent, FALSE),
     \* an element whose extraction raises
     SiteElement(Absent, Absent, Absent, <<>>, Absent, TRUE)}

\* the most article elements of one site page
MaxElements == 2

\* a headline (h1-h4) of a site page: the anchor it has or its parent has
\* (text, href), and its parent as an article element
Headline(link, parent) == [link |-> link, parent |-> parent]

\* a headline owns or is owned by a hyperlink with text
OwnsLinkWithText(headline) ==
    /\ headline.link # Absent
    /\ strip(headline.link[1].text) # ""
    /\ headline.link[1].href # Absent

SampleHeadlines ==
    {\* a headline around a hyperlink
     Headline(Present([text |-> "RBI holds rates", href |-> Present("/rbi")]),
              SiteElement(Absent, Absent, Present([text |-> "RBI holds rates", href |-> Present("/rbi")]),
                          <<[text |-> "RBI holds rates", href |-> Present("/rbi")]>>, Absent, FALSE)),
     \* a headline around an anchor without text and href
     Headline(Present([text |-> "", href |-> Absent]),
              SiteElement(Absent, Absent, Present([text |-> "Markets", href |-> Absent]),
                          <<[text |-> "", href |-> Absent]>>, Absent, FALSE)),
     \* a headline without any anchor near it
     Headline(Absent, SiteElement(Absent, Absent, Present([text |-> "Top stories", href |-> Absent]), <<>>,
                                  Absent, FALSE))}

\* the most headlines of one site page
MaxHeadlines == 1

\* what the alternative selectors, in their order, match on a page: an element
\* with a title and an anchor, an element with neither, or nothing
AlternativeElements ==
    {SiteElement(Present("Gold falls"), Absent, Absent,
                 <<[text |-> " ", href |-> Present("/img")], [text |-> "Read more", href |-> Present("gold")]>>,
                 Absent, FALSE),
     SiteElement(Present("   "), Present("/x"), Absent, <<[text |-> "Share", href |-> Absent]>>, Absent, FALSE)}

AlternativeMatches ==
    {<<first, second>> : first \in SeqsUpTo(AlternativeElements, 1), second \in SeqsUpTo(AlternativeElements, 1)}

\* a site page: the elements under the site's article selector, the elements
\* under each alternative selector, and the headlines. Pages where the site's
\* selector finds something, pages where it finds nothing, and pages where it
\* finds something and the alternative selectors and headlines would too
SitePages ==
    {[primary |-> els, alternative |-> <<>>, headlines |-> <<>>] : els \in SeqsUpTo(SampleElements, MaxElements)}
        \cup {[primary |-> <<>>, alternative |-> matches, headlines |-> headlines] :
                  matches \in AlternativeMatches, headlines \in SeqsUpTo(SampleHeadlines, MaxHeadlines)}
        \cup {[primary |-> <<el>>, alternative |-> <<<<el>>, <<>>>>, headlines |-> headlines] :
                  el \in AlternativeElements, headlines \in SeqsUpTo(SampleHeadlines, MaxHeadlines) \ {<<>>}}

\* the sites whose provider is called
ProviderSites == {"moneycontrol", "yahoo_finance", "marketwatch"}

\* (site, max_articles) of the providers called: those of the factory methods,
\* which leave the default of the constructor, and one that returns one article
ProviderConfigs == {<<site, max_articles>> : site \in ProviderSites} \cup {<<"moneycontrol", 1>>}

\* a result block of a search page: the text of the title element, its own
\* href, the href of its nearest enclosing anchor ("" when that has none), the
\* href of the alternative link element, the text of the source element, the
\* time element (datetime attribute, text); raises: parsing the block raises
Block(title, title_href, parent_link, alt_link, source, time, raises) ==
    [title |-> title, title_href |-> title_href, parent_link |-> parent_link, alt_link |-> alt_link,
     source |-> source, time |-> time, raises |-> raises]

SampleBlocks ==
    {Block(Present("Oil prices rise on supply fears"), Present("./articles/abc"), Absent, Absent,
           Present("Reuters"), Present([datetime |-> Present("2023-01-02T10:00:00Z"), text |-> "2 hours ago"]), FALSE),
     \* the same title once more, linked through the enclosing anchor, no source
     Block(Present("Oil prices rise on supply fears"), Absent, Present("/articles/def"), Absent,
           Absent, Absent, FALSE),
     \* a source element without text, the link from the alternative selector
     Block(Present(" Gold slips "), Absent, Present(""), Present("https://example.com/gold"),
           Present(""), Present([datetime |-> Absent, text |-> " Yesterday "]), FALSE),
     \* no link anywhere
     Block(Present("Nifty ends flat"), Absent, Absent, Absent, Present("Mint"), Absent, FALSE),
     \* a title element without text, and no title element
     Block(Present(" "), Present("/articles/ghi"), Absent, Absent, Present("Mint"), Absent, FALSE),
     Block(Absent, Absent, Absent, Present("read/jkl"), Present("Mint"), Absent, FALSE),
     \* a block whose parsing raises
     Block(Present("Sensex gains"), Present("/articles/mno"), Absent, Absent, Absent, Absent, TRUE)}

\* the anchors of a search page the last-resort pass looks at
SampleLinks ==
    {[text |-> " Sensex gains 300 points today ", href |-> Present("/articles/pqr")],
     [text |-> "Markets wrap: stocks mixed", href |-> Present("read/stu")],
     [text |-> "More", href |-> Present("/more")],
     [text |-> "Wall Street closes higher", href |-> Absent]}

\* the most result blocks, and the most anchors, of one search page
MaxBlocks == 2
MaxLinks == 1

\* the anchors of a search page without result blocks: a headline in two
\* anchors, and an anchor that is no headline
SampleAnchors ==
    {[text |-> " Sensex gains 300 points today ", href |-> Present("/articles/pqr")],
     [text |-> "Sensex gains 300 points today", href |-> Present("./articles/vwx")],
     [text |-> "More", href |-> Present("/more")]}

\* the most anchors of a search page without result blocks
MaxAnchors == 2

\* the search pages: pages with result blocks, and pages where only the
\* last-resort pass finds anything
GooglePages ==
    {[blocks |-> blocks, all_links |-> links] :
        blocks \in SeqsUpTo(SampleBlocks, MaxBlocks), links \in SeqsUpTo(SampleLinks, MaxLinks)}
    \cup {[blocks |-> <<>>, all_links |-> links] : links \in SeqsUpTo(SampleAnchors, MaxAnchors)}

\* (query, country) of GoogleNewsProvider.fetch_news
GoogleArgs == {<<"", "">>, <<"gold", "">>, <<"", "india">>}

\* values of the source key of a raw article: a dict with a name, a dict
\* without, a dict whose name is None, a str, None
SourceValues ==
    {PyDict("name" :> PyStr("Reuters")), PyDict(<<>>), PyDict("name" :> PyNone), PyStr("Mint"), PyNone}

\* the raw articles normalize_article is given: every subset of the six keys
RawArticles ==
    {[k \in keys |->
         IF k = "source" THEN source
         ELSE IF k = "title" THEN "Oil up"
         ELSE IF k = "url" THEN "https://example.com/1"
         ELSE IF k = "publishedAt" THEN "2023-01-01T12:00:00Z"
         ELSE IF k = "time" THEN "1 day ago"
         ELSE "Oil rose."] : keys \in SUBSET ArticleKeys, source \in SourceValues}

\* ------------------------------------------------------------------------
\* News providers: operations
\* ------------------------------------------------------------------------

\* a provider method returns (or raises): the call is over
ProviderDone(call, fetches, result) ==
    /\ prov_pc' = "done"
    /\ prov_call' = call
    /\ prov_fetches' = fetches
    /\ prov_result' = result
    /\ UNCHANGED <<prov_url, prov_articles, prov_pages, non_prov_vars>>

\* FinancialSiteProvider.fetch_news of a provider constructed for a site with
\* max_articles = cap is called: articles = [], the first url
site_fetch_news(site, cap) ==
    /\ prov_pc = "idle"
    /\ prov_pc' = "fetching"
    /\ prov_call' = [NoProviderCall EXCEPT !.op = "FinancialSiteProvider.fetch_news", !.site = site,
                                            !.max_articles = cap]
    /\ prov_url' = 1
    /\ prov_articles' = <<>>
    /\ prov_pages' = <<>>
    /\ prov_fetches' = <<>>
    /\ prov_result' = NoProviderResult
    /\ UNCHANGED non_prov_vars

site_urls == FINANCIAL_NEWS_SOURCES[prov_call.site].urls

\* inside the loop over self.urls
SiteFetching == prov_pc = "fetching" /\ prov_url <= Len(site_urls)

\* the loop goes on to the next url; seen is what the selectors found on the
\* page, if it was parsed
site_next_url(outcome, found, seen) ==
    /\ prov_url' = prov_url + 1
    /\ prov_fetches' = Append(prov_fetches, outcome)
    /\ prov_articles' = prov_articles \o found
    /\ prov_pages' = prov_pages \o seen
    /\ UNCHANGED <<prov_pc, prov_call, prov_result, non_prov_vars>>

\* an exception inside the loop body that nothing catches
site_exception_propagates(outcome) ==
    /\ prov_pc' = "done"
    /\ prov_fetches' = Append(prov_fetches, outcome)
    /\ prov_result' = [raised |-> TRUE, articles |-> <<>>]
    /\ UNCHANGED <<prov_call, prov_url, prov_articles, prov_pages, non_prov_vars>>

\* lines 127-128: except Exception around the body of the loop
site_on_exception(outcome) == site_next_url(outcome, <<>>, <<>>)

\* line 71: requests.get raises
site_request_raises == SiteFetching /\ site_on_exception("network_error")

\* lines 72-74: the status is not 200
site_status_not_200 == SiteFetching /\ site_next_url("status_not_200", <<>>, <<>>)

\* lines 76-86: parsing the page or selecting from it raises
site_parse_raises == SiteFetching /\ site_on_exception("parse_error")

\* lines 76-125: the page is parsed and its elements are gone through
site_page_parsed(page) ==
    /\ SiteFetching
    /\ site_next_url("ok",
                     site_page_articles(page, FINANCIAL_NEWS_SOURCES[prov_call.site].name,
                                        site_urls[prov_url], prov_call.max_articles),
                     <<[primary_matches |-> Len(page.primary),
                        alternative_consulted |-> page.primary = <<>>,
                        headline_with_link |-> \E i \in 1..Len(page.headlines) : OwnsLinkWithText(page.headlines[i])]>>)

\* line 130: return articles
site_fetch_returns ==
    /\ prov_pc = "fetching" /\ prov_url > Len(site_urls)
    /\ prov_pc' = "done"
    /\ prov_result' = [raised |-> FALSE, articles |-> prov_articles]
    /\ UNCHANGED <<prov_call, prov_url, prov_articles, prov_fetches, prov_pages, non_prov_vars>>

GoogleCall(query, country) ==
    [NoProviderCall EXCEPT !.op = "GoogleNewsProvider.fetch_news", !.query = query, !.country = country]

\* an exception inside the try block that nothing catches
google_exception_propagates(call, outcome) ==
    ProviderDone(call, <<outcome>>, [raised |-> TRUE, articles |-> <<>>])

\* lines 236-238: except Exception: log and return []
google_on_exception(call, outcome) ==
    ProviderDone(call, <<outcome>>, [raised |-> FALSE, articles |-> <<>>])

\* lines 194-234: from the parsed items on; soup is the parsed page, bound
\* only when the status was 200
google_finish(call, outcome, news_items, soup) ==
    LET filtered_news == filter_out_duplicates(news_items, {})
    IN IF filtered_news # <<>>
       THEN ProviderDone(call, <<outcome>>, [raised |-> FALSE, articles |-> filtered_news])
       ELSE IF soup = Absent
            \* line 208 reads soup, which is unbound: NameError
            THEN google_on_exception(call, outcome)
            ELSE ProviderDone(call, <<outcome>>,
                              [raised |-> FALSE,
                               articles |-> google_last_resort(soup[1], google_query_of(call.query, call.country))])

\* line 65: requests.get raises
google_request_raises(query, country) ==
    /\ prov_pc = "idle"
    /\ google_on_exception(GoogleCall(query, country), "network_error")

\* line 68: the status is not 200
google_status_not_200(query, country) ==
    /\ prov_pc = "idle"
    /\ google_finish(GoogleCall(query, country), "status_not_200", <<>>, Absent)

\* lines 75-91: parsing the page or selecting from it raises
google_parse_raises(query, country) ==
    /\ prov_pc = "idle"
    /\ google_on_exception(GoogleCall(query, country), "parse_error")

\* lines 75-234: the page is parsed and its blocks are gone through
google_page_parsed(query, country, page) ==
    /\ prov_pc = "idle"
    /\ google_finish(GoogleCall(query, country), "ok",
                     google_blocks_articles(page.blocks, google_query_of(query, country)), Present(page))

\* a direct call of normalize_article
normalize_article_call(article) ==
    /\ prov_pc = "idle"
    /\ ProviderDone([NoProviderCall EXCEPT !.op = "normalize_article", !.article = article], <<>>,
                    [raised |-> FALSE, articles |-> <<normalize_article(article)>>])

\* the caller has taken the result: the provider waits for its next call
provider_call_completed ==
    /\ prov_pc = "done"
    /\ prov_pc' = "idle"
    /\ prov_call' = NoProviderCall
    /\ prov_url' = 1
    /\ prov_articles' = <<>>
    /\ prov_pages' = <<>>
    /\ prov_fetches' = <<>>
    /\ prov_result' = NoProviderResult
    /\ UNCHANGED non_prov_vars

NextProviderStep ==
    \/ \E config \in ProviderConfigs : site_fetch_news(config[1], config[2])
    \/ site_request_raises
    \/ site_status_not_200
    \/ site_parse_raises
    \/ \E page \in SitePages : site_page_parsed(page)
    \/ site_fetch_returns
    \/ \E a \in GoogleArgs : google_request_raises(a[1], a[2])
    \/ \E a \in GoogleArgs : google_status_not_200(a[1], a[2])
    \/ \E a \in GoogleArgs : google_parse_raises(a[1], a[2])
    \/ \E a \in GoogleArgs, page \in GooglePages : google_page_parsed(a[1], a[2], page)
    \/ \E article \in RawArticles : normalize_article_call(article)
    \/ provider_call_completed

\* the providers, called directly
SpecProvider == Init /\ [][NextProviderStep]_vars

\* ------------------------------------------------------------------------
\* Digest formatter: inputs
\* ------------------------------------------------------------------------

\* the ceilings the repository configures
Ceilings == {TelegramCeiling, FormattingCeiling}

\* a message of a's, a separator and b's: where the separator starts, and the
\* length of the whole
TruncMessage(head, sep, total) == Repeat("a", head) \o sep \o Repeat("b", total - head - Len(sep))

\* separators around the places the two functions compare a break with
Heads(max_length) ==
    {10, max_length \div 2 - 1, max_length \div 2, max_length - 201, max_length - 200,
     max_length - 6, max_length - 5, max_length - 4, max_length - 3}
Seps == {"\n\n", ". ", "\n", "ab"}
Totals(max_length) == {max_length, max_length + 1, max_length + 60}

TruncMessages(max_length) ==
    {TruncMessage(head, sep, total) : head \in Heads(max_length), sep \in Seps, total \in Totals(max_length)}

\* the sentences of the long title, and the length of the long url's path
LongTitleSentences == 150
LongUrlLength == 3000

\* the articles of a digest: short, a title of many sentences, a long url, no
\* url, a long summary, markup characters in the title and the source name
DigestArticles ==
    {WithSummary(Article("Oil up", "https://cnbc.com/1", "CNBC", "2023-01-02"), "Oil rose."),
     Article(Repeat("Stocks rise again. ", LongTitleSentences) \o "More", "https://cnbc.com/2", "CNBC", ""),
     Article("Gold slips", "https://news.google.com/articles/" \o Repeat("a", LongUrlLength), "Unknown", ""),
     Article("Nifty ends flat", "", "", "2023-01-03"),
     WithSummary(Article("Sensex gains", "https://moneycontrol.com/5", "MoneyControl", ""),
                 Repeat("Sensex rose again. ", 60)),
     Article("S&P 500 [live] *up*", "https://cnbc.com/6", "Market_Watch", "")}

\* the most articles of a digest
MaxDigestArticles == 3

NoAnalysis == [summary |-> "", insights |-> "", key_points |-> <<>>, trending_topics |-> <<>>]
FullAnalysis ==
    [summary |-> "Market news summary unavailable.",
     insights |-> "Nifty is up 1.2%.\nKey themes in today's news: oil, gold.",
     key_points |-> <<"Oil up", "Gold slips">>,
     trending_topics |-> <<"Oil", "Gold", "Nifty", "Rates", "Banks", "Tech">>]

\* the title of a digest; "#" is for its emoji
DigestTitle == "# Market News"

\* ------------------------------------------------------------------------
\* Digest formatter: operations
\* ------------------------------------------------------------------------

\* a formatter function returns
FormatDone(call, message, result) ==
    /\ fmt_pc' = "done"
    /\ fmt_call' = call
    /\ fmt_message' = message
    /\ fmt_result' = result
    /\ fmt_again' = ""
    /\ UNCHANGED non_fmt_vars

\* a call of truncate_message of telegram_formatter.py
telegram_truncate_call(message, max_length) ==
    /\ fmt_pc = "idle"
    /\ FormatDone([NoFormatCall EXCEPT !.op = "telegram_formatter.truncate_message", !.max_length = max_length],
                  message, truncate_message(message, max_length))

\* a call of truncate_message of formatting.py
formatting_truncate_call(message, max_length) ==
    /\ fmt_pc = "idle"
    /\ FormatDone([NoFormatCall EXCEPT !.op = "formatting.truncate_message", !.max_length = max_length],
                  message, formatting_truncate_message(message, max_length))

\* truncate_message is called on what it returned
truncate_again ==
    /\ fmt_pc = "done"
    /\ fmt_call.op \in {"telegram_formatter.truncate_message", "formatting.truncate_message"}
    /\ fmt_pc' = "again"
    /\ fmt_again' = IF fmt_call.op = "telegram_formatter.truncate_message"
                    THEN truncate_message(fmt_result, fmt_call.max_length)
                    ELSE formatting_truncate_message(fmt_result, fmt_call.max_length)
    /\ UNCHANGED <<fmt_call, fmt_message, fmt_result, non_fmt_vars>>

\* a call of format_enhanced_news
format_enhanced_news_call(articles, analysis, title) ==
    /\ fmt_pc = "idle"
    /\ FormatDone([NoFormatCall EXCEPT !.op = "format_enhanced_news", !.max_length = TelegramCeiling,
                                       !.articles = articles, !.title = title],
                  IF articles = <<>> THEN "" ELSE enhanced_news_message(articles, analysis, title, enhanced_max_articles),
                  format_enhanced_news(articles, analysis, title, enhanced_max_articles))

\* a call of format_news_articles
format_news_articles_call(articles, title) ==
    /\ fmt_pc = "idle"
    /\ FormatDone([NoFormatCall EXCEPT !.op = "format_news_articles", !.max_length = TelegramCeiling,
                                       !.articles = articles, !.title = title],
                  IF articles = <<>> THEN "" ELSE news_articles_message(articles, title, news_max_articles),
                  format_news_articles(articles, title, news_max_articles))

\* the caller has taken the result
format_call_completed ==
    /\ fmt_pc \in {"done", "again"}
    /\ fmt_pc' = "idle"
    /\ fmt_call' = NoFormatCall
    /\ fmt_message' = ""
    /\ fmt_result' = ""
    /\ fmt_again' = ""
    /\ UNCHANGED non_fmt_vars

NextFormatStep ==
    \/ \E max_length \in Ceilings : \E message \in TruncMessages(max_length) :
           telegram_truncate_call(message, max_length)
    \/ \E max_length \in Ceilings : \E message \in TruncMessages(max_length) :
           formatting_truncate_call(message, max_length)
    \/ truncate_again
    \/ \E articles \in SeqsUpTo(DigestArticles, MaxDigestArticles), analysis \in {NoAnalysis, FullAnalysis} :
           format_enhanced_news_call(articles, analysis, DigestTitle)
    \/ \E articles \in SeqsUpTo(DigestArticles, MaxDigestArticles) :
           format_news_articles_call(articles, DigestTitle)
    \/ format_call_completed

\* the formatter, called directly
SpecFormat == Init /\ [][NextFormatStep]_vars

\* ------------------------------------------------------------------------
\* ContentAnalyzer: inputs
\* ------------------------------------------------------------------------

\* an article as the analyzer reads it: article.get('title', ''), article.get('content', '')
AnalyzedArticle(title, content) == [title |-> title, content |-> content]

\* headlines that mention no index, one index, one index under two of its terms,
\* and several indices, with and without a percentage and a stated reason
AnalyzedArticles ==
    {AnalyzedArticle("S&P 500 rises 1.2%", ""),
     AnalyzedArticle("Dow falls -0.8% amid rate fears", "The DJIA was hit by a selloff."),
     AnalyzedArticle("Sensex gains +0.5% on bank rally", ""),
     AnalyzedArticle("Nifty ends flat", "Traders wait for the RBI."),
     AnalyzedArticle("Gold up 2%", ""),
     AnalyzedArticle("Wall Street slips 0.30 % after Fed holds rates", "")}

\* the longest article list given to the analyzer
MaxAnalyzed == 2

\* the country argument; "" is country=None
Countries == {"", "us", "india"}

\* an article whose content is None: {'title': title, 'content': None}
ArticleWithoutContent(title) == [title |-> title, content_is_None |-> TRUE]

\* articles given to generate_comprehensive_analysis: titles that differ only by
\* a trailing ellipsis, titles that differ only by case, titles of their own,
\* and an article whose content is None
AnalysisArticles ==
    {AnalyzedArticle("Oil up...", "Oil rose 2% on supply fears."),
     AnalyzedArticle("Oil up", ""),
     AnalyzedArticle("OIL UP", ""),
     AnalyzedArticle("Gold slips", "Gold fell as the dollar rose."),
     AnalyzedArticle("Nifty ends flat", "Traders wait for the RBI."),
     ArticleWithoutContent("Fed holds rates")}

\* the longest article list given to generate_comprehensive_analysis
MaxAnalysisArticles == 4

\* the article lists given to generate_comprehensive_analysis: each article at
\* most once in a list
AnalysisArticleLists ==
    {articles \in SeqsUpTo(AnalysisArticles, MaxAnalysisArticles) :
        \A i, j \in 1..Len(articles) : i # j => articles[i] # articles[j]}

\* articles that mention terms of the vocabulary: an index of one country in
\* two articles, terms of the global list in one
FocusArticles ==
    {AnalyzedArticle("Nifty ends flat", "Traders wait for the RBI."),
     AnalyzedArticle("Nifty up", ""),
     AnalyzedArticle("Dow and bonds up", "")}

\* the longest list of them given to generate_comprehensive_analysis
MaxFocusArticles == 2

FocusArticleLists ==
    {articles \in SeqsUpTo(FocusArticles, MaxFocusArticles) :
        \A i, j \in 1..Len(articles) : i # j => articles[i] # articles[j]}

\* the query argument; "" is query=None
AnalysisQueries == {"", "gold"}

\* ------------------------------------------------------------------------
\* ContentAnalyzer: operations
\* ------------------------------------------------------------------------

\* ContentAnalyzer._extract_market_movements(articles, country)
extract_market_movements_call(articles, country) ==
    /\ an_pc = "idle"
    /\ an_pc' = "done"
    /\ an_call' = [op |-> "_extract_market_movements", articles |-> articles, country |-> country,
                    query |-> ""]
    /\ an_result' = extract_market_movements(articles, country)
    /\ UNCHANGED non_an_vars

\* ContentAnalyzer.generate_comprehensive_analysis(articles, query): an_result is
\* the dictionary it returns, its raised field telling that it raised instead
generate_comprehensive_analysis_call(articles, query) ==
    /\ an_pc = "idle"
    /\ an_pc' = "done"
    /\ an_call' = [op |-> "generate_comprehensive_analysis", articles |-> articles, country |-> "",
                    query |-> query]
    /\ an_result' = generate_comprehensive_analysis(articles, query)
    /\ UNCHANGED non_an_vars

\* the caller has the list; the analyzer keeps nothing between calls
analyzer_call_completed ==
    /\ an_pc = "done"
    /\ an_pc' = "idle"
    /\ an_call' = NoAnalyzerCall
    /\ an_result' = <<>>
    /\ UNCHANGED non_an_vars

NextAnalyzerStep ==
    \/ \E articles \in SeqsUpTo(AnalyzedArticles, MaxAnalyzed), country \in Countries :
           extract_market_movements_call(articles, country)
    \/ \E articles \in AnalysisArticleLists \cup FocusArticleLists, query \in AnalysisQueries :
           generate_comprehensive_analysis_call(articles, query)
    \/ analyzer_call_completed

\* the analyzer, called directly
SpecAnalyzer == Init /\ [][NextAnalyzerStep]_vars

\* ------------------------------------------------------------------------
\* ContentAnalyzer: properties
\* ------------------------------------------------------------------------

\* the canonical names of the term-to-canonical-name table
CanonicalNames == {term_mapping[term] : term \in DOMAIN term_mapping}

\* the index a movement statement names: the canonical name it starts with
IndexNamedBy(statement) == CHOOSE name \in CanonicalNames : startswith(statement, name \o " ")

\* C8: within one call of movement-insight extraction no market index is reported
\* twice: no two movement statements of the returned list name the same index
\* (canonical name of the term-to-canonical-name table).
C8_NoIndexReportedTwice ==
    (an_pc = "done" /\ an_call.op = "_extract_market_movements") =>
        \A i, j \in 1..Len(an_result) :
            i # j => IndexNamedBy(an_result[i]) # IndexNamedBy(an_result[j])

\* a call of generate_comprehensive_analysis on a non-empty article list is over
AnalysisDone ==
    an_pc = "done" /\ an_call.op = "generate_comprehensive_analysis" /\ an_call.articles # <<>>

\* C14: when one insight heuristic raises while a non-empty article set is
\* analysed, the analysis returned for that run still carries the outputs of the
\* heuristics that did not fail: the analysis is returned, and its key points are
\* those the key-point heuristic extracted (that heuristic reads titles only).
C14_FailingHeuristicKeepsTheOthers ==
    AnalysisDone =>
        /\ ~an_result.raised
        /\ an_result.key_points = extract_key_points(an_call.articles, key_points_count)

\* the titles of the articles after the cleanup extract_key_points applies to
\* each entry, empty titles left out
RECURSIVE CleanedTitles(_)
CleanedTitles(articles) ==
    IF articles = <<>> THEN <<>>
    ELSE (IF Head(articles).title = "" THEN <<>>
          ELSE <<strip(replace(Head(articles).title, "...", ""))>>) \o CleanedTitles(Tail(articles))

\* the key points are at most key_points_count cleaned titles, in input order
KeyPointsBoundedInOrder ==
    /\ Len(an_result.key_points) <= key_points_count
    /\ IsSubsequence(an_result.key_points, CleanedTitles(an_call.articles))

\* C17: key_points of an analysis has at most 3 entries, taken from the article
\* titles in input order, and no two entries are equal when compared
\* case-insensitively after the cleanup applied to each entry.
C17_KeyPointsDistinctAfterCleanup ==
    (AnalysisDone /\ ~an_result.raised) =>
        /\ KeyPointsBoundedInOrder
        /\ \A i, j \in 1..Len(an_result.key_points) :
               i # j => lower(an_result.key_points[i]) # lower(an_result.key_points[j])

\* what the code does keep: at most 3 cleaned titles in input order, no two of
\* them cleaned from titles that are equal case-insensitively before the cleanup
C17_KeyPointsOfDistinctTitles ==
    (AnalysisDone /\ ~an_result.raised) =>
        /\ KeyPointsBoundedInOrder
        /\ an_result.key_points = extract_key_points(an_call.articles, key_points_count)
        /\ Len(an_result.key_points) <= Cardinality({lower(an_call.articles[i].title) : i \in 1..Len(an_call.articles)})

\* ------------------------------------------------------------------------
\* Digest formatter: properties
\* ------------------------------------------------------------------------

TruncateOps == {"telegram_formatter.truncate_message", "formatting.truncate_message"}

\* C6: for every message and each configured ceiling, truncate_message (of
\* telegram_formatter.py and of formatting.py) returns a string no longer than
\* max_length, and truncate_message applied to that string returns it unchanged.
C6_TruncateBoundedAndIdempotent ==
    /\ (fmt_pc \in {"done", "again"} /\ fmt_call.op \in TruncateOps) => Len(fmt_result) <= fmt_call.max_length
    /\ (fmt_pc = "again" /\ fmt_call.op \in TruncateOps) => fmt_again = fmt_result

\* a message over the ceiling was cut at a paragraph break, and truncated again
C6_Witness ==
    /\ fmt_pc = "again" /\ fmt_call.op = "telegram_formatter.truncate_message"
    /\ Len(fmt_message) > fmt_call.max_length
    /\ Len(fmt_result) < fmt_call.max_length - 4
    /\ fmt_again = fmt_result

\* the link token of an article of the digest
LinkToken(article) == "[" \o article.title \o "](" \o article.url \o ")"

\* C7: when a rendered digest exceeds the ceiling, the cut truncate_message
\* makes never falls inside a link token "[title](url)": every link token of
\* the message is kept whole or removed whole.
C7_TruncationKeepsLinkTokensWhole ==
    (fmt_pc = "done" /\ fmt_call.op \in {"format_enhanced_news", "format_news_articles"}
        /\ Len(fmt_message) > fmt_call.max_length) =>
        LET cut == Len(fmt_result) - 3
        IN \A i \in 1..Len(fmt_call.articles) :
               fmt_call.articles[i].url # "" =>
                   \A start \in Occurrences(fmt_message, LinkToken(fmt_call.articles[i])) :
                       \/ cut <= start - 1
                       \/ cut >= start + Len(LinkToken(fmt_call.articles[i])) - 1

\* a call of format_enhanced_news or format_news_articles has returned
DigestDone == fmt_pc = "done" /\ fmt_call.op \in {"format_enhanced_news", "format_news_articles"}

\* C16: in the digest of format_enhanced_news and of format_news_articles,
\* every character of the renderer's special-character set that occurs in an
\* article title or source name appears escaped (checked on the digests that
\* truncate_message leaves whole, where every article is shown).
C16_TitlesAndSourcesEscaped ==
    (DigestDone /\ fmt_result = fmt_message) =>
        \A i \in 1..Len(fmt_call.articles) :
            /\ Contains(fmt_result, escape_markdown(fmt_call.articles[i].title))
            /\ source_name_of(fmt_call.articles[i]) \notin {"", "Unknown"} =>
                   Contains(fmt_result, "_" \o escape_markdown(source_name_of(fmt_call.articles[i])) \o "_")

\* the same, for the titles and source names that hold no special character
C16_PlainTitlesAndSourcesShown ==
    (DigestDone /\ fmt_result = fmt_message) =>
        \A i \in 1..Len(fmt_call.articles) :
            /\ escape_markdown(fmt_call.articles[i].title) = fmt_call.articles[i].title =>
                   Contains(fmt_result, fmt_call.articles[i].title)
            /\ (/\ source_name_of(fmt_call.articles[i]) \notin {"", "Unknown"}
                /\ escape_markdown(source_name_of(fmt_call.articles[i])) = source_name_of(fmt_call.articles[i]))
                   => Contains(fmt_result, "_" \o source_name_of(fmt_call.articles[i]) \o "_")

\* ------------------------------------------------------------------------
\* News providers: properties
\* ------------------------------------------------------------------------

\* a fetch_news of either provider has returned (or raised)
FetchNewsDone ==
    prov_pc = "done" /\ prov_call.op \in {"FinancialSiteProvider.fetch_news", "GoogleNewsProvider.fetch_news"}

\* a direct call of normalize_article has returned
NormalizeDone == prov_pc = "done" /\ prov_call.op = "normalize_article"

\* ways a fetch fails
FetchFailures == {"network_error", "status_not_200", "parse_error"}

\* C2: for both providers, a network exception, a status other than 200 or a
\* parse failure never raises out of fetch_news: the call returns a list, and
\* the list is empty when every fetch of the call (the only one, for the
\* search-query provider) failed.
C2_FetchNewsNeverRaises ==
    /\ prov_pc = "fetching" => ~prov_result.raised
    /\ FetchNewsDone =>
           /\ ~prov_result.raised
           /\ (\A i \in 1..Len(prov_fetches) : prov_fetches[i] \in FetchFailures) => prov_result.articles = <<>>

\* a search-query fetch that met a status other than 200 has returned, and a
\* site fetch whose first url failed and whose second gave articles has too
C2_Witness ==
    /\ FetchNewsDone /\ ~prov_result.raised
    /\ \/ prov_fetches = <<"status_not_200">> /\ prov_call.op = "GoogleNewsProvider.fetch_news"
       \/ prov_fetches = <<"network_error", "parse_error">>

\* C9 as stated: normalize_article returns the six keys, each key absent from
\* the input at its default ("No title", "", {"name": "Unknown"}, "", "", ""),
\* and source is always an object with a name field.
C9_SixKeysWithStatedDefaults ==
    NormalizeDone =>
        LET article == prov_call.article
            normalized == prov_result.articles[1]
        IN /\ DOMAIN normalized = ArticleKeys
           /\ "title" \notin DOMAIN article => normalized.title = "No title"
           /\ "url" \notin DOMAIN article => normalized.url = ""
           /\ "source" \notin DOMAIN article => normalized.source = PyDict("name" :> PyStr("Unknown"))
           /\ "publishedAt" \notin DOMAIN article => normalized.publishedAt = ""
           /\ "time" \notin DOMAIN article => normalized.time = ""
           /\ "content" \notin DOMAIN article => normalized.content = ""
           /\ normalized.source.t = "dict" /\ "name" \in DOMAIN normalized.source.d

\* C9 as amended: normalize_article returns the six keys; a key present in the
\* input keeps its value, but for a source that is no dict, which becomes
\* {"name": that value}; an absent key takes its default, "No title" for
\* title, {"name": "Unknown"} for source, "Recent" for time and "" for url,
\* publishedAt and content; source is always a dict, and it has a name field
\* unless the input's source is a dict without one.
C9_SixKeysWithDefaults ==
    NormalizeDone =>
        LET article == prov_call.article
            normalized == prov_result.articles[1]
        IN /\ DOMAIN normalized = ArticleKeys
           /\ \A k \in DOMAIN article \ {"source"} : normalized[k] = article[k]
           /\ "title" \notin DOMAIN article => normalized.title = "No title"
           /\ "url" \notin DOMAIN article => normalized.url = ""
           /\ "publishedAt" \notin DOMAIN article => normalized.publishedAt = ""
           /\ "time" \notin DOMAIN article => normalized.time = "Recent"
           /\ "content" \notin DOMAIN article => normalized.content = ""
           /\ "source" \notin DOMAIN article => normalized.source = PyDict("name" :> PyStr("Unknown"))
           /\ normalized.source.t = "dict"
           /\ "source" \in DOMAIN article =>
                  IF article.source.t = "dict"
                  THEN normalized.source = article.source
                  ELSE normalized.source.d = ("name" :> article.source)
           /\ "name" \notin DOMAIN normalized.source.d =>
                  "source" \in DOMAIN article /\ article.source.t = "dict"
                      /\ "name" \notin DOMAIN article.source.d

\* an article with a str source and no title, time or content was normalized
C9_Witness ==
    /\ NormalizeDone
    /\ DOMAIN prov_call.article = {"url", "source", "publishedAt"}
    /\ prov_call.article.source = PyStr("Mint")
    /\ prov_result.articles[1].source = PyDict("name" :> PyStr("Mint"))

\* C10: every article a provider's fetch_news returns (site-scrape primary and
\* fallback extraction, search-query primary pass and last-resort pass) has a
\* non-empty title, a non-empty url and a source object whose name is a
\* non-empty string.
C10_ArticlesHaveTitleUrlAndSourceName ==
    FetchNewsDone =>
        \A i \in 1..Len(prov_result.articles) :
            LET article == prov_result.articles[i]
            IN /\ article.title # ""
               /\ article.url # ""
               /\ article.source.t = "dict"
               /\ "name" \in DOMAIN article.source.d
               /\ article.source.d.name.t = "str"
               /\ article.source.d.name.s # ""

\* ------------------------------------------------------------------------
\* NewsService: properties
\* ------------------------------------------------------------------------

\* how often x occurs in seq
Count(seq, x) == Cardinality({i \in 1..Len(seq) : seq[i] = x})

\* an entry point of NewsService has returned (or raised)
EntryPointDone ==
    svc_pc = "done" /\ svc_call.op \in {"get_market_news", "get_topic_news", "get_technical_analysis"}

\* an aggregation entry point has returned (or raised)
AggregationDone == svc_pc = "done" /\ svc_call.op \in {"get_market_news", "get_topic_news"}

\* a direct call of filter_articles_by_query has returned (or raised)
FilterDone == svc_pc = "done" /\ svc_call.op = "filter_articles_by_query"

\* C1: fetch_news_from_all_sources invokes the search-query provider and then
\* each selected site-scrape provider in configured order, each exactly once,
\* whichever of them raised; what it returns holds exactly the articles the
\* providers that did not raise returned (a raising provider adds nothing),
\* and the call does not raise (its caller raises only when one of its own
\* later steps does).
C1_EveryProviderInvokedOnce ==
    /\ svc_pc = "fetching" =>
           /\ Len(invoked) <= Len(ProvidersOf(svc_call.country))
           /\ invoked = SubSeq(ProvidersOf(svc_call.country), 1, Len(invoked))
    /\ AggregationDone =>
           /\ svc_result.raised => svc_result.fault # "none"
           /\ invoked = ProvidersOf(svc_call.country)
           /\ Len(svc_result.fetched) = Len(returned)
           /\ \A a \in Range(returned) : Count(svc_result.fetched, a) = Count(returned, a)

\* a call in which a provider raised and others returned articles has returned
C1_Witness == AggregationDone /\ some_raised /\ Len(returned) >= 2 /\ Len(svc_result.fetched) >= 2

RECURSIVE RemovePunctuation(_)
\* a title without its punctuation: the word characters and the whitespace
RemovePunctuation(s) ==
    IF s = "" THEN ""
    ELSE (IF IsWord(Ch(s, 1)) \/ IsSpace(Ch(s, 1)) THEN Ch(s, 1) ELSE "") \o RemovePunctuation(From(s, 2))

\* the dedup key of a title: case-folded, punctuation and whitespace normalised
DedupKey(title) == strip(CollapseSpaces(RemovePunctuation(lower(title))))

\* C3: the list an aggregation entry point (get_market_news, get_topic_news)
\* returns never holds two articles whose titles have the same dedup key.
C3_NoTwoTitlesWithOneDedupKey ==
    AggregationDone =>
        \A i, j \in 1..Len(svc_result.articles) :
            i # j => DedupKey(svc_result.articles[i].title) # DedupKey(svc_result.articles[j].title)

\* the query terms that are no stopwords, read off the query by the claim
NonStopwordTerms(query) == {w \in Range(split(clean_text(query))) : w \notin STOPWORDS}

\* C4: when the aggregator is given a free-text query (get_market_news with a
\* query, get_topic_news with a topic), every returned article has at least
\* one non-stopword query term in its title and content, and carries
\* relevance_score = terms found / terms, a value in (0, 1].
C4_QueryResultsMatchAndAreScored ==
    (AggregationDone /\ svc_call.query # "") =>
        \A i \in 1..Len(svc_result.articles) :
            LET article == svc_result.articles[i]
                text == lower(clean_text(article.title \o " " \o article.content))
                found == {w \in NonStopwordTerms(svc_call.query) : Contains(text, w)}
            IN /\ found # {}
               /\ "relevance_score" \in DOMAIN article
               /\ article.relevance_score[1] >= 1
               /\ article.relevance_score[1] <= article.relevance_score[2]

\* a query that is empty or made of stopwords only
EmptyOrStopwordsOnly(query) == \A w \in Range(split(query)) : lower(w) \in STOPWORDS

WithoutSummary(articles) ==
    [i \in 1..Len(articles) |-> [k \in DOMAIN articles[i] \ {"summary"} |-> articles[i][k]]]

\* news is ordered by publishedAt descending, the articles without a timestamp last
NewestFirst(news) ==
    \A i, j \in 1..Len(news) :
        i < j => /\ ~StrLess(news[i].publishedAt, news[j].publishedAt)
                 /\ (news[i].publishedAt = "" => news[j].publishedAt = "")

\* C11: when no query filter is applied (get_market_news applies none), the
\* aggregated article list is ordered by publishedAt descending: of two
\* positions i < j, article i's timestamp is not older than article j's, and
\* every article without a timestamp comes after every article that has one;
\* dedup and limit truncation preserve this order.
C11_NewestFirstWithoutQueryFilter ==
    (AggregationDone /\ svc_call.op = "get_market_news") =>
        /\ NewestFirst(svc_result.fetched)
        /\ NewestFirst(svc_result.articles)
        /\ IsSubsequence(WithoutSummary(svc_result.articles), svc_result.fetched)

\* the providers returned three articles out of order, one of them without a
\* timestamp, and get_market_news returned the three
C11_Witness ==
    /\ AggregationDone /\ svc_call.op = "get_market_news"
    /\ Len(svc_result.articles) = 3
    /\ returned # svc_result.fetched
    /\ \E i \in 1..3 : svc_result.articles[i].publishedAt = ""
    /\ \E i \in 1..3 : svc_result.articles[i].publishedAt # ""

\* C12: every result that get_market_news, get_topic_news and
\* get_technical_analysis return has count equal to the length of its article
\* list, and that length is at most the limit of the call, whatever the
\* providers returned.
C12_CountIsLengthWithinLimit ==
    (EntryPointDone /\ ~svc_result.raised) =>
        /\ svc_result.count = Len(svc_result.articles)
        /\ svc_result.count <= svc_call.limit

\* get_technical_analysis has cut three matching articles to its limit of two
C12_Witness ==
    /\ svc_pc = "done" /\ svc_call.op = "get_technical_analysis" /\ svc_call.limit = 2
    /\ Len(filter_articles_by_query(svc_result.fetched, svc_call.query)) = 3
    /\ svc_result.count = 2

\* the "no results" message of the handler of the call
NoResultsMessage(call) ==
    IF call.op = "get_market_news"
    THEN "Sorry, I couldn't find any market news at the moment. Please try again later."
    ELSE "Sorry, I couldn't find any news for the topic '" \o call.query \o "' at the moment. "
             \o "Please try again later or try a different topic."

\* what the handler of the call answers with
CommandReply(call, news_data) ==
    IF call.op = "get_market_news" THEN news_command_reply(news_data)
    ELSE topic_news_command_reply(call.query, news_data)

\* C13: when every provider returned an empty list or raised, get_market_news
\* and get_topic_news return normally, with an empty article list and count
\* 0, and the command handler answers with its "no results" message and not
\* with its error message.
C13_NoArticlesIsNoError ==
    (AggregationDone /\ returned = <<>>) =>
        /\ ~svc_result.raised
        /\ svc_result.articles = <<>>
        /\ svc_result.count = 0
        /\ CommandReply(svc_call, svc_result) = NoResultsMessage(svc_call)

\* get_market_news has returned after a fetch in which a provider raised and
\* no provider returned an article
C13_Witness ==
    /\ svc_pc = "done" /\ svc_call.op = "get_market_news"
    /\ returned = <<>> /\ some_raised
    /\ svc_result.formatted_message = "No news articles found."

\* the digest of the basic formatter for the articles an entry point returned
BasicDigestOf(call, articles) ==
    format_news_articles(articles,
                         IF call.op = "get_market_news"
                         THEN "# Latest Market News" \o country_suffix(call.country)
                         ELSE topic_title_of(call.query),
                         news_max_articles)

\* C15: when summarisation, analysis or enhanced formatting raises inside
\* get_market_news or get_topic_news, the exception does not leave the entry
\* point: the call returns the collected articles, their count, and a digest
\* rendered by the basic formatter.
C15_TailFailureNeverPropagates ==
    (AggregationDone /\ svc_result.fault # "none") =>
        /\ ~svc_result.raised
        /\ svc_result.articles # <<>>
        /\ svc_result.count = Len(svc_result.articles)
        /\ svc_result.formatted_message = BasicDigestOf(svc_call, svc_result.articles)

\* the same for get_market_news alone, whose steps are inside a try block
C15_MarketNewsFallsBack ==
    (AggregationDone /\ svc_call.op = "get_market_news") => C15_TailFailureNeverPropagates

\* summarize_article raised inside get_market_news, which returned two articles
C15_MarketNewsFallsBack_Witness ==
    /\ svc_pc = "done" /\ svc_call.op = "get_market_news"
    /\ svc_result.fault = "summarize_article" /\ svc_result.count = 2

\* the running invocation has returned, and the remembered one had the same
\* arguments, the same provider outputs and the same failing step, if any
SameInvocationAgain ==
    /\ AggregationDone
    /\ svc_earlier.call = svc_call
    /\ svc_earlier.returned = returned
    /\ svc_earlier.result.fault = svc_result.fault

WrappedDone == adm_pc = "done"

\* the caller is the configured administrator
CallerIsAdmin == adm_call.user_id = ADMIN_USER_ID

\* the caller is neither the configured administrator nor whitelisted
CallerIsOther == adm_call.user_id # ADMIN_USER_ID /\ ~is_user_whitelisted(adm_call.user_id)

\* the decorator sent a reply containing "restricted"
RestrictedReplySent == \E i \in 1..Len(adm_result.replies) : Contains(adm_result.replies[i], "restricted")

\* C19 as stated: a call by the user whose id equals ADMIN_USER_ID runs the
\* wrapped handler and sends no restriction message; a call by a user whose id
\* differs and who is not whitelisted never runs the handler and is answered with
\* a reply containing "restricted".
C19_OthersAlwaysAnswered ==
    WrappedDone =>
        /\ CallerIsAdmin => (adm_result.handler_ran /\ adm_result.replies = <<>>)
        /\ CallerIsOther => (~adm_result.handler_ran /\ RestrictedReplySent)

\* what the code does: the administrator's call runs the wrapped handler and
\* sends no restriction message; a call by a user who is neither the
\* administrator nor whitelisted never runs the handler, and it is answered with
\* the reply containing "restricted" exactly when it is that user's first refused
\* call since the module was loaded and the update has a message; a first
\* refused call whose update has no message raises, and later refused calls are
\* ignored without a reply
C19_OthersAnsweredOnce ==
    WrappedDone =>
        /\ CallerIsAdmin => (adm_result.handler_ran /\ adm_result.replies = <<>> /\ ~adm_result.raised)
        /\ CallerIsOther =>
               /\ ~adm_result.handler_ran
               /\ RestrictedReplySent <=> (~adm_call.warned_before /\ adm_call.has_message)
               /\ adm_result.raised <=> (~adm_call.warned_before /\ ~adm_call.has_message)
               /\ adm_call.user_id \in WARNED_USERS

\* C20: when ADMIN_USER_ID is not set (0 or empty) the admin check is disabled: a
\* call by any user runs the wrapped handler and no restriction message is sent.
C20_UnsetAdminIdDisablesCheck ==
    (WrappedDone /\ ADMIN_USER_ID \in {"", "0"}) =>
        (adm_result.handler_ran /\ adm_result.replies = <<>>)

\* what the code does when ADMIN_USER_ID is not set: only whitelisted users run
\* the wrapped handler
C20_UnsetAdminIdLeavesWhitelist ==
    (WrappedDone /\ ADMIN_USER_ID \in {"", "0"}) =>
        (adm_result.handler_ran <=> is_user_whitelisted(adm_call.user_id))

\* ------------------------------------------------------------------------
\* NewsService: the order of the merged articles
\* ------------------------------------------------------------------------

\* the place in merge order (the search-query provider's list, then the
\* site-scrape providers' lists in invocation order) of the first article with
\* a url; 0 if no provider returned it
MergePlace(url) ==
    IF \E k \in 1..Len(returned) : returned[k].url = url
    THEN CHOOSE k \in 1..Len(returned) :
             /\ returned[k].url = url
             /\ \A h \in 1..(k - 1) : returned[h].url # url
    ELSE 0

\* the place in merge order of the first article whose title has a key
FirstWithKey(key) ==
    CHOOSE k \in 1..Len(returned) :
        /\ lower(returned[k].title) = key
        /\ \A h \in 1..(k - 1) : lower(returned[h].title) # key

\* C22: among several merged articles that share a dedup key, the one that
\* survives deduplication in get_market_news is the first in merge order; a later
\* article never replaces an earlier one with the same key.
C22_FirstInMergeOrderSurvives ==
    (AggregationDone /\ svc_call.op = "get_market_news" /\ ~svc_result.raised) =>
        \A i \in 1..Len(svc_result.articles) :
            svc_result.articles[i].url = returned[FirstWithKey(lower(svc_result.articles[i].title))].url

\* C23: the relevance-filtered result of a query run (get_topic_news) is ordered
\* by non-increasing relevance score, and any two articles with equal score
\* appear in their original merge order.
C23_ScoreOrderTiesInMergeOrder ==
    (AggregationDone /\ svc_call.op = "get_topic_news" /\ ~svc_result.raised) =>
        \A i, j \in 1..Len(svc_result.articles) :
            i < j =>
                /\ ~ScoreGt(svc_result.articles[j].relevance_score, svc_result.articles[i].relevance_score)
                /\ svc_result.articles[i].relevance_score = svc_result.articles[j].relevance_score
                       => MergePlace(svc_result.articles[i].url) <= MergePlace(svc_result.articles[j].url)

\* ------------------------------------------------------------------------
\* Search-query provider: the titles of one fetch
\* ------------------------------------------------------------------------

\* GoogleNewsProvider.fetch_news has returned
GoogleFetchDone == prov_pc = "done" /\ prov_call.op = "GoogleNewsProvider.fetch_news"

\* C24: the list returned by the search-query provider's fetch_news never
\* contains two articles with the same exact title, whether the articles came
\* from the selector-based pass or from the last-resort anchor pass.
C24_NoTitleTwiceInOneFetch ==
    GoogleFetchDone =>
        \A i, j \in 1..Len(prov_result.articles) :
            i # j => prov_result.articles[i].title # prov_result.articles[j].title

\* ------------------------------------------------------------------------
\* Site-scrape provider: the number of articles of one fetch
\* ------------------------------------------------------------------------

\* FinancialSiteProvider.fetch_news has returned
SiteFetchDone == prov_pc = "done" /\ prov_call.op = "FinancialSiteProvider.fetch_news"

\* C25: a site-scrape provider's fetch_news returns at most max_articles
\* articles in total, for any number of configured URLs and any number of
\* article containers found on each page.
C25_AtMostMaxArticlesInTotal ==
    SiteFetchDone => Len(prov_result.articles) <= prov_call.max_articles

\* what the code does: at most max_articles articles for each configured URL
C25_AtMostMaxArticlesPerUrl ==
    SiteFetchDone =>
        Len(prov_result.articles) <= prov_call.max_articles * Len(FINANCIAL_NEWS_SOURCES[prov_call.site].urls)

\* C26: when the primary container selector of a site-scrape provider matches
\* nothing on a successfully fetched page that contains at least one heading
\* owning or owned by a hyperlink with non-empty text, the fallback chain makes
\* fetch_news return at least one article; the fallback chain is consulted only
\* when the primary selector matched zero containers.
C26_FallbackFindsTheHeadline ==
    SiteFetchDone =>
        /\ (\E k \in 1..Len(prov_pages) :
               prov_pages[k].primary_matches = 0 /\ prov_pages[k].headline_with_link)
               => Len(prov_result.articles) >= 1
        /\ \A k \in 1..Len(prov_pages) :
               prov_pages[k].alternative_consulted => prov_pages[k].primary_matches = 0

\* what the code does: the fallback chain is consulted exactly when the primary
\* selector matched zero containers
C26_FallbackOnlyAfterNoPrimaryMatch ==
    SiteFetchDone =>
        \A k \in 1..Len(prov_pages) :
            prov_pages[k].alternative_consulted <=> prov_pages[k].primary_matches = 0

\* ------------------------------------------------------------------------
\* ContentAnalyzer: the terms named by an analysis
\* ------------------------------------------------------------------------

\* the number of analysed articles whose title and content mention a term
ArticlesMentioning(term) ==
    Cardinality({i \in 1..Len(an_call.articles) : Contains(lowered_text(an_call.articles[i]), lower(term))})

\* the terms of a vocabulary that some analysed article mentions
Mentioned(vocabulary) == {term \in Range(vocabulary) : ArticlesMentioning(term) >= 1}

\* the listings of at most 5 mentioned terms, most-frequent first: no term of
\* a listing precedes, or is listed instead of, a term that more articles mention
MostFrequentFirst(terms) ==
    {listing \in [1..Min(5, Cardinality(terms)) -> terms] :
        /\ \A i, j \in DOMAIN listing : i # j => listing[i] # listing[j]
        /\ \A k \in DOMAIN listing :
               \A term \in terms \ {listing[i] : i \in 1..k} :
                   ArticlesMentioning(term) <= ArticlesMentioning(listing[k])}

\* the names a listing is shown with
ShownAs(listing) == [k \in DOMAIN listing |-> formatted_term(lower(listing[k]))]

\* the whole vocabulary of generate_market_insight called without a country
WholeVocabulary == market_terms.global \o market_terms.us \o market_terms.india

\* an analysis of articles that all have a content was returned
FocusDone == AnalysisDone /\ ~an_result.raised

\* the "Market focus" statement names the terms of some most-frequent-first
\* listing of the whole vocabulary
MarketFocusMostFrequentFirst ==
    \/ Mentioned(WholeVocabulary) = {} /\ ~Contains(an_result.insights, "Market focus: ")
    \/ /\ Mentioned(WholeVocabulary) # {}
       /\ \E listing \in MostFrequentFirst(Mentioned(WholeVocabulary)) :
              Contains(an_result.insights, "Market focus: " \o Join(ShownAs(listing), ", ") \o ".")

\* trending_topics names the terms of some most-frequent-first listing of the
\* global vocabulary
TrendingTopicsMostFrequentFirst ==
    \E listing \in MostFrequentFirst(Mentioned(market_terms.global)) :
        an_result.trending_topics = ShownAs(listing)

\* C27: both the "Market focus" statement inside insights and the
\* trending_topics list name at most 5 vocabulary terms in most-frequent-first
\* order: a term never precedes another listed or omitted term that occurs in
\* strictly more articles of the analysed set.
C27_FocusAndTrendingMostFrequentFirst ==
    FocusDone => (MarketFocusMostFrequentFirst /\ TrendingTopicsMostFrequentFirst)

\* what the code does for trending_topics: at most 5 terms of the global
\* vocabulary, most-frequent first
C27_TrendingMostFrequentFirst ==
    FocusDone => TrendingTopicsMostFrequentFirst

\* ------------------------------------------------------------------------
\* admin_only: one call after another
\* ------------------------------------------------------------------------

\* no user has been sent the restriction message twice, and a call that sent
\* it was that user's first refused call
RestrictedAtMostOnce ==
    /\ \A user_id \in DOMAIN adm_restricted : adm_restricted[user_id] <= 1
    /\ (WrappedDone /\ RestrictedReplySent) => ~adm_call.warned_before

\* the wrapped handler has not run for a user who is neither the administrator
\* nor whitelisted
HandlerNotRunForOthers == (WrappedDone /\ CallerIsOther) => ~adm_result.handler_ran

start_command(subscribed, chat_id) ==
    [subscribed |-> subscribed \cup {chat_id},
     reply |-> "Hello! I'm your Market Intelligence Assistant."]

\* subscribe_command, lines 90-108
subscribe_command(subscribed, chat_id) ==
    [subscribed |-> subscribed \cup {chat_id},
     reply |-> "You are now subscribed to daily market insights at 09:00 Asia/Kolkata."]

\* unsubscribe_command with the chat left in the set
unsubscribe_command_chat_kept(subscribed, chat_id) ==
    IF chat_id \in subscribed
    THEN [subscribed |-> subscribed, reply |-> "You have been unsubscribed from daily updates."]
    ELSE [subscribed |-> subscribed, reply |-> "You are not currently subscribed to updates."]

\* unsubscribe_command, lines 118-131
unsubscribe_command(subscribed, chat_id) ==
    IF chat_id \in subscribed
    THEN [subscribed |-> subscribed \ {chat_id}, reply |-> "You have been unsubscribed from daily updates."]
    ELSE [subscribed |-> subscribed, reply |-> "You are not currently subscribed to updates."]

SubscriptionCommands == {"start", "subscribe", "unsubscribe"}

\* the handler of a command
handler_of(command, subscribed, chat_id) ==
    IF command = "start" THEN start_command(subscribed, chat_id)
    ELSE IF command = "subscribe" THEN subscribe_command(subscribed, chat_id)
    ELSE unsubscribe_command(subscribed, chat_id)

\* (str(update.effective_user.id), update.effective_chat.id) of the updates: the
\* administrator and another user in their private chats (whose id is the
\* user's), and the two and a whitelisted user in a group
SubscriptionUpdates ==
    {<<"12345", "12345">>, <<"67890", "67890">>, <<"12345", "-1001">>, <<"67890", "-1001">>,
     <<"1186795432", "-1001">>}

\* the dispatcher calls the handler of a command, which admin_only wraps, with
\* an update of user_id in chat_id; allowed is what the decorator did. The
\* handler runs up to the end (its only await is the reply it ends with)
command_returns(command, user_id, chat_id, allowed, handled) ==
    /\ WARNED_USERS' = allowed.warned
    /\ subscribed_users' = IF allowed.handler_ran THEN handled.subscribed ELSE subscribed_users
    /\ sub_call' = [command |-> command, user_id |-> user_id, chat_id |-> chat_id,
                    handler_ran |-> allowed.handler_ran,
                    replies |-> IF allowed.handler_ran THEN <<handled.reply>> ELSE allowed.replies,
                    subscribed_before |-> subscribed_users]
    /\ sub_last_accepted' =
           IF allowed.handler_ran THEN (chat_id :> command) @@ sub_last_accepted ELSE sub_last_accepted
    /\ upd_concurrent' = (upd_concurrent \/ upd_pc = "awaiting")
    /\ UNCHANGED <<adm_pc, ADMIN_USER_ID, adm_call, adm_result, adm_restricted>>
    /\ UNCHANGED <<upd_pc, upd_chat, upd_queue, upd_log, upd_before, upd_pipeline>>
    /\ UNCHANGED <<svc_vars, prov_vars, fmt_vars, an_vars, svc_earlier>>

\* a command is handled: on the event loop, so not while the daily update runs
\* between two of its awaits
command_handled(command, user_id, chat_id) ==
    /\ adm_pc = "idle"
    /\ upd_pc \in {"idle", "awaiting"}
    /\ command_returns(command, user_id, chat_id, wrapped(user_id, TRUE, ADMIN_USER_ID, WARNED_USERS),
                       handler_of(command, subscribed_users, chat_id))

NextSubscribeStep ==
    \/ \E admin_user_id \in AdminUserIds : import_decorators(admin_user_id)
    \/ \E command \in SubscriptionCommands, update \in SubscriptionUpdates :
           command_handled(command, update[1], update[2])

\* the subscription commands, one after another, with no daily update
SpecSubscribe == Init /\ [][NextSubscribeStep]_vars

\* a command has been handled
CommandDone == sub_call.command # ""

\* C21: over any sequence of /start, /subscribe and /unsubscribe commands (with
\* no scheduler removal in between), a chat id is in subscribed_users exactly
\* when the most recent command accepted from an authorized user of that chat
\* was /start or /subscribe; commands from a denied user never change
\* subscribed_users, and /unsubscribe of a chat that is not subscribed leaves
\* the set unchanged.
C21_SubscribedIffLastAcceptedSubscribes ==
    /\ subscribed_users = {chat_id \in DOMAIN sub_last_accepted :
                               sub_last_accepted[chat_id] \in {"start", "subscribe"}}
    /\ (CommandDone /\ ~sub_call.handler_ran) => subscribed_users = sub_call.subscribed_before
    /\ (CommandDone /\ sub_call.command = "unsubscribe" /\ sub_call.chat_id \notin sub_call.subscribed_before)
           => subscribed_users = sub_call.subscribed_before

\* a chat was unsubscribed by one user after another had subscribed it, while
\* another chat stays subscribed and a denied user has been turned away
C21_Witness ==
    /\ CommandDone /\ sub_call.command = "unsubscribe" /\ sub_call.handler_ran
    /\ sub_call.chat_id \in sub_call.subscribed_before
    /\ sub_call.chat_id \notin subscribed_users
    /\ subscribed_users # {}
    /\ WARNED_USERS # {}

\* ------------------------------------------------------------------------
\* marketbot/services/scheduler_service.py
\* ------------------------------------------------------------------------

\* the subscriber removed whatever the error of the send is
removes_subscriber_whatever_error(error) == TRUE

\* _send_daily_update, lines 101-103: whether the error of a send has the
\* subscriber removed
removes_subscriber(error) ==
    \/ Contains(lower(error), "blocked")
    \/ Contains(lower(error), "chat not found")
    \/ Contains(lower(error), "deactivated")

\* str(e) of the errors bot.send_message raises
SendErrors ==
    {"Forbidden: bot was blocked by the user", "Bad Request: chat not found",
     "Forbidden: user is deactivated", "Timed out"}

\* list(subscribed_users): the chat ids in the order the set is gone through
ListsOf(subscribed) ==
    {order \in SeqsUpTo(subscribed, Cardinality(subscribed)) :
        Len(order) = Cardinality(subscribed) /\ Range(order) = subscribed}

\* the update comes to its end (line 111 assigns the set to its own key)
update_ends(log) ==
    /\ upd_pc' = "done"
    /\ upd_chat' = ""
    /\ upd_log' = log
    /\ UNCHANGED upd_queue

\* the loop of line 90 goes on: the send to the next chat is awaited, or the
\* loop is over
next_send(log) ==
    IF upd_queue = <<>>
    THEN update_ends(log)
    ELSE /\ upd_pc' = "awaiting"
         /\ upd_chat' = Head(upd_queue)
         /\ upd_queue' = Tail(upd_queue)
         /\ upd_log' = log

not_update_vars == <<svc_vars, prov_vars, fmt_vars, an_vars, svc_earlier, adm_vars>>

\* _send_daily_update is run on the event loop, lines 72-92: without
\* subscribers it returns; else get_market_news is called and the send to the
\* first chat of order = list(subscribed_users) is awaited
send_daily_update(order) ==
    /\ upd_pc = "idle"
    /\ order \in ListsOf(subscribed_users)
    /\ upd_before' = subscribed_users
    /\ upd_concurrent' = FALSE
    /\ upd_log' = <<>>
    /\ IF subscribed_users = {}
       THEN upd_pc' = "done" /\ upd_chat' = "" /\ upd_queue' = <<>> /\ upd_pipeline' = 0
       ELSE upd_pc' = "awaiting" /\ upd_chat' = Head(order) /\ upd_queue' = Tail(order) /\ upd_pipeline' = 1
    /\ UNCHANGED <<sub_vars, not_update_vars>>

\* lines 82-87 raise (get_market_news, or building the message): the except
\* clause of line 107 logs it and no send is made
send_daily_update_preparing_raises ==
    /\ upd_pc = "idle"
    /\ subscribed_users # {}
    /\ upd_before' = subscribed_users
    /\ upd_concurrent' = FALSE
    /\ upd_pipeline' = 1
    /\ upd_queue' = <<>>
    /\ update_ends(<<>>)
    /\ UNCHANGED <<sub_vars, not_update_vars>>

\* lines 92-97: the send awaited returns
send_message_returns ==
    /\ upd_pc = "awaiting"
    /\ next_send(Append(upd_log, [chat_id |-> upd_chat, outcome |-> "sent"]))
    /\ UNCHANGED <<upd_before, upd_concurrent, upd_pipeline, sub_vars, not_update_vars>>

\* lines 98-105: the send awaited raises, with str(e) = error. The remove of
\* line 105 raises KeyError when the chat is no longer in the set; that leaves
\* the except clause and the loop, and the except clause of line 107 logs it
send_message_raises(error) ==
    /\ upd_pc = "awaiting"
    /\ IF ~removes_subscriber(error)
       THEN /\ next_send(Append(upd_log, [chat_id |-> upd_chat, outcome |-> error]))
            /\ UNCHANGED subscribed_users
       ELSE IF upd_chat \in subscribed_users
       THEN /\ next_send(Append(upd_log, [chat_id |-> upd_chat, outcome |-> error]))
            /\ subscribed_users' = subscribed_users \ {upd_chat}
       ELSE /\ update_ends(Append(upd_log, [chat_id |-> upd_chat, outcome |-> error]))
            /\ UNCHANGED subscribed_users
    /\ UNCHANGED <<upd_before, upd_concurrent, upd_pipeline, sub_call, sub_last_accepted, not_update_vars>>

\* the update has been looked at: the scheduler waits for the next day
daily_update_completed ==
    /\ upd_pc = "done"
    /\ upd_pc' = "idle"
    /\ upd_chat' = ""
    /\ upd_queue' = <<>>
    /\ upd_log' = <<>>
    /\ upd_before' = {}
    /\ upd_concurrent' = FALSE
    /\ upd_pipeline' = 0
    /\ UNCHANGED <<sub_vars, not_update_vars>>

\* the bot of an administrator
DailyAdminUserIds == {"12345"}

\* the commands handled around and during an update, and who sends them where:
\* the administrator in the private chat, a whitelisted user in a group and in
\* the private chat
DailyCommands == {"subscribe", "unsubscribe"}
DailyUpdates == {<<"12345", "12345">>, <<"1186795432", "-1001">>, <<"1186795432", "1186795432">>}

NextDailyStep ==
    \/ \E admin_user_id \in DailyAdminUserIds : import_decorators(admin_user_id)
    \/ \E command \in DailyCommands, update \in DailyUpdates : command_handled(command, update[1], update[2])
    \/ \E order \in ListsOf(subscribed_users) : send_daily_update(order)
    \/ send_daily_update_preparing_raises
    \/ send_message_returns
    \/ \E error \in SendErrors : send_message_raises(error)
    \/ daily_update_completed

\* the daily update, with commands handled before it and while its sends are
\* awaited
SpecDaily == Init /\ [][NextDailyStep]_vars

\* _send_daily_update has returned
UpdateDone == upd_pc = "done"

\* the chats this update tried to send to
Attempted == {upd_log[i].chat_id : i \in 1..Len(upd_log)}

\* C28: during one daily update, a failed send to one subscriber (including a
\* failure that leads to that subscriber's removal) never prevents the send
\* attempts to the remaining subscribers of that update, under every
\* interleaving of the update's awaits with /subscribe and /unsubscribe handlers
\* running on the same event loop.
C28_FailedSendKeepsTheOtherSends ==
    (UpdateDone /\ upd_log # <<>>) => Attempted = upd_before

\* what the code does: every subscriber of the update is tried unless a
\* command was handled while a send was awaited
C28_AllTriedWithoutCommandsMeanwhile ==
    (UpdateDone /\ upd_log # <<>> /\ ~upd_concurrent) => Attempted = upd_before

\* the claim's reading of the error of a send
MentionsRemovalReason(error) ==
    \E reason \in {"blocked", "chat not found", "deactivated"} : Contains(lower(error), reason)

\* the chats whose send failed with an error that mentions a reason for removal
FailedForRemoval ==
    {upd_log[i].chat_id : i \in {k \in 1..Len(upd_log) : MentionsRemovalReason(upd_log[k].outcome)}}

\* C30: after a daily update that ran without concurrent subscription
\* commands, subscribed_users equals the set before the update minus exactly
\* those chat ids whose send failed with an error mentioning "blocked", "chat not
\* found" or "deactivated"; subscribers whose send succeeded or failed for any
\* other reason stay subscribed, and with no subscribers the update performs no
\* pipeline invocation and no send.
C30_OnlyUnreachableSubscribersRemoved ==
    (UpdateDone /\ ~upd_concurrent) =>
        /\ subscribed_users = upd_before \ FailedForRemoval
        /\ upd_before = {} => (upd_pipeline = 0 /\ upd_log = <<>>)

\* an update without commands meanwhile in which one send failed for a reason
\* for removal and another for another reason
C30_Witness ==
    /\ UpdateDone /\ ~upd_concurrent
    /\ Cardinality(upd_before) >= 2
    /\ FailedForRemoval # {}
    /\ \E i \in 1..Len(upd_log) : upd_log[i].outcome = "Timed out" /\ upd_log[i].chat_id \in subscribed_users

====
